---- MODULE Spec2Model ----
(***************************************************************************)
(* Payment orchestration core: the dialog coordinator (DialogManager), the *)
(* payment session state machine (UniversalPaymentDialog) and the provider *)
(* callbacks (GuoweiPaymentService) that connect them.                     *)
(*                                                                         *)
(* Time is in milliseconds.  Every runtime timer (setInterval/setTimeout)  *)
(* is a record with the time remaining until it fires; Advance moves the   *)
(* clock to the next deadline.  Steps that the JavaScript runtime runs as  *)
(* microtasks (the continuations of the awaits in openPaymentDialog and    *)
(* showPaymentDialog) run before any timer, network response or click.     *)
(* A currentStatus watcher of the component runs in the microtask flush    *)
(* that follows the handler that changed the status, so it is part of the  *)
(* same step, after the rest of that handler.                              *)
(***************************************************************************)
EXTENDS Integers, FiniteSets, Sequences, TLC

\* ---------------------------------------------------------------- bounds
MaxKey == 1
MaxDialogs == 2
MaxCalls == 2
Countdown == 1
MaxInflight == 2
MaxClicks == 2
MaxErrors == 2
HistoryRun == 22
MaxInstances == 4
MaxOrders == 3
StackLimit == 3
MaxRegistered == 2
MaxWrappers == 2
MaxEmits == 2
MaxHandlers == 3

Keys == 1..MaxKey
\* the keys of the dedup index: those of the concurrent callers and one more,
\* used by the sessions of SpecKeys
PaymentKeys == 1..(MaxKey + 1)
DialogIds == 1..MaxDialogs
Calls == 1..MaxCalls

\* ------------------------------------------------------ program constants
AUTO_CLOSE_DELAY == 3000
INIT_EVENT_DELAY == 50
TIMER_INTERVAL == 1000
QUERY_SETTLE_DELAY == 500
ANIMATION_DELAY == 300
pollingInterval == 3000

PASSIVE_INIT == "PASSIVE_INIT"
ACTIVE_INIT == "ACTIVE_INIT"
WAITING == "WAITING"
PENDING == "PENDING"
PROCESSING == "PROCESSING"
SUCCESS == "SUCCESS"
FAILED == "FAILED"
CANCELLED == "CANCELLED"
CLOSED == "CLOSED"
REFUNDING == "REFUNDING"
REFUNDED == "REFUNDED"
TIMEOUT == "TIMEOUT"
ABANDONED == "ABANDONED"

PAYMENT_STATUS ==
  {PASSIVE_INIT, ACTIVE_INIT, WAITING, PENDING, PROCESSING, SUCCESS, FAILED,
   CANCELLED, CLOSED, REFUNDING, REFUNDED, TIMEOUT, ABANDONED}

ACTIVE == "active"
PASSIVE == "passive"
SCAN_MODES == {ACTIVE, PASSIVE}

\* The statuses a gateway status query delivers to updateStatus, and the two
\* other outcomes of a query: a response without paymentStatus, and a failure.
GatewayStatuses == {PENDING, PROCESSING, SUCCESS, FAILED, CLOSED}
\* the statuses the gateway reports for an order that was paid and then refunded
\* by cancelPayment
RefundStatuses == {REFUNDING, REFUNDED}
NoStatus == "none"
QueryError == "error"

\* The result argument of controller.close(result): omitted, or a payload.
CloseResults == {"undefined", "custom"}

VARIABLES inst, activeDialogs, dialogPromises, ctrl, destroyTimer,
          currentDialogInstance, net, calls, nextId, clicks

\* The payment manager (the facade), its error manager and the call of the
\* facade that is under way.
VARIABLES errorHistory, recorded, retryStrategies, initialized, paymentEnabled, run

\* The service factory: its cache, the number of instances it has built, and
\* what its last create call was given and returned.
VARIABLES serviceCache, instances, created

\* The provider instance with its gateway traffic, and the event emitter.
VARIABLES provider, emitter

\* The provider instances by their lives: the one the manager holds in
\* paymentService (0: null) and those destroy() has run on.
VARIABLES services

dialogVars == <<inst, activeDialogs, dialogPromises, ctrl, destroyTimer,
                currentDialogInstance, net, calls, nextId, clicks>>

factoryVars == <<serviceCache, instances, created>>

serviceVars == <<provider, emitter, services>>

managerVars == <<errorHistory, recorded, retryStrategies, initialized, paymentEnabled,
                 run, factoryVars>>

vars == <<inst, activeDialogs, dialogPromises, ctrl, destroyTimer,
          currentDialogInstance, net, calls, nextId, clicks,
          errorHistory, recorded, retryStrategies, initialized, paymentEnabled, run,
          serviceCache, instances, created, provider, emitter, services>>

\* ------------------------------------------------ the component instance
\* data() of the component, plus what the runtime holds for it: its live
\* timers, its listeners, its watcher and its place in the document.
NoSession ==
  [created |-> FALSE, key |-> 0, payScanMode |-> PASSIVE, scanMode |-> PASSIVE,
   autoPolling |-> FALSE,
   currentStatus |-> PASSIVE_INIT, timeLeft |-> Countdown,
   timer |-> 0, pollingTimer |-> 0, initTimeout |-> 0, queryTimeout |-> 0,
   closeTimeout |-> 0, live |-> {},
   isQuerying |-> FALSE, isDestroyed |-> FALSE, loading |-> {},
   dialogVisible |-> FALSE, clickListenerAdded |-> FALSE,
   watching |-> FALSE, vmDestroyed |-> FALSE, inDom |-> FALSE,
   provBound |-> 0, dmFinal |-> FALSE, dmClose |-> FALSE,
   \* history, read by the properties only
   path |-> 0, autoClosed |-> 0, staleClears |-> 0, destroyScheduled |-> 0]

NoController ==
  [exists |-> FALSE, isResolved |-> FALSE, settled |-> FALSE,
   value |-> "pending", by |-> "none", resolveCalls |-> 0]

NoRequests ==
  [query |-> 0, init |-> 0, cancel |-> 0, retry |-> 0, abandon |-> 0,
   refresh |-> 0, create |-> 0]

Min(S) == CHOOSE x \in S : \A y \in S : x <= y

\* A handle the runtime has not handed out to this instance and that no field
\* of the instance still holds.
FreshHandle(s) ==
  Min((1..(Cardinality(s.live) + 6))
      \ ({t.h : t \in s.live}
         \cup {s.timer, s.pollingTimer, s.initTimeout, s.queryTimeout, s.closeTimeout}))

\* clearInterval / clearTimeout of handle h
ClearHandle(s, h) ==
  [s EXCEPT !.live = {t \in @ : t.h # h},
            !.staleClears = IF \E t \in s.live : t.h = h THEN @ ELSE Min({@ + 1, 2})]

Arm(s, kind, h, delay) ==
  [s EXCEPT !.live = @ \cup {[kind |-> kind, h |-> h, rem |-> delay]}]

\* stopTimer without the finally block of line 928 (this.timer = null)
stopTimerKeepHandle(s) ==
  IF s.timer # 0 THEN ClearHandle(s, s.timer) ELSE s

stopTimer(s) ==
  IF s.timer # 0 THEN [ClearHandle(s, s.timer) EXCEPT !.timer = 0] ELSE s

stopPolling(s) ==
  IF s.pollingTimer # 0 THEN [ClearHandle(s, s.pollingTimer) EXCEPT !.pollingTimer = 0]
  ELSE s

startTimer(s) ==
  IF s.timeLeft > 0
  THEN LET s1 == stopTimer(s) IN
       IF s1.isDestroyed THEN s1
       ELSE LET h == FreshHandle(s1) IN
            [Arm(s1, "timer", h, TIMER_INTERVAL) EXCEPT !.timer = h]
  ELSE s

startPolling(s) ==
  LET s1 == stopPolling(s) IN
  IF s1.isDestroyed THEN s1
  ELSE LET h == FreshHandle(s1) IN
       [Arm(s1, "poll", h, pollingInterval) EXCEPT !.pollingTimer = h]

isActiveMode(s) == s.scanMode = ACTIVE

isShowQrcode(s) ==
  isActiveMode(s) /\ s.currentStatus \in {ACTIVE_INIT, PROCESSING, PENDING}

isFinalStatus(status) == status \in {SUCCESS, ABANDONED}

ClearTimeoutField(s, f) ==
  IF s[f] # 0 THEN [ClearHandle(s, s[f]) EXCEPT ![f] = 0] ELSE s

cleanup(s) ==
  LET s1 == stopPolling(stopTimer(s))
      s2 == ClearTimeoutField(s1, "initTimeout")
      s3 == ClearTimeoutField(s2, "queryTimeout")
      s4 == ClearTimeoutField(s3, "closeTimeout")
  IN [s4 EXCEPT !.clickListenerAdded = FALSE, !.loading = {}, !.isQuerying = FALSE]

setActionLoading(s, key, on) ==
  [s EXCEPT !.loading = IF on THEN @ \cup {key} ELSE @ \ {key}]

updateStatus(s, status) ==
  IF status # NoStatus /\ status # s.currentStatus
  THEN [s EXCEPT !.currentStatus = status] ELSE s


\* ------------------------------------------------------------- the world
\* The handlers call each other across the three components, so each is an
\* operator from the whole state to the whole state.  ovf marks a step that
\* would exceed MaxInflight: such a step is not taken.
World ==
  [inst |-> inst, activeDialogs |-> activeDialogs, dialogPromises |-> dialogPromises,
   ctrl |-> ctrl, destroyTimer |-> destroyTimer,
   currentDialogInstance |-> currentDialogInstance, net |-> net, ovf |-> FALSE]

Apply(w) ==
  /\ ~w.ovf
  /\ inst' = w.inst
  /\ activeDialogs' = w.activeDialogs
  /\ dialogPromises' = w.dialogPromises
  /\ ctrl' = w.ctrl
  /\ destroyTimer' = w.destroyTimer
  /\ currentDialogInstance' = w.currentDialogInstance
  /\ net' = w.net

\* A provider handler issues a gateway request: one per bound listener.
Request(w, d, kind) ==
  LET n == w.inst[d].provBound IN
  IF w.net[d][kind] + n > MaxInflight THEN [w EXCEPT !.ovf = TRUE]
  ELSE [w EXCEPT !.net[d][kind] = @ + n]

\* ------------------------------------------------------------- provider
\* _unbindDialogEvents(instance): $off(name, handler) for the handlers the
\* provider holds, then $off(name) for the nine event names, which removes
\* every listener of these events, the coordinator's two included.
unbindDialogEvents(w, d) ==
  IF d = 0 THEN w
  ELSE [w EXCEPT !.inst[d].provBound = 0,
                 !.inst[d].dmFinal = FALSE,
                 !.inst[d].dmClose = FALSE]

bindDialogEvents(w, d) ==
  IF w.inst[d].provBound + 1 > MaxInflight THEN [w EXCEPT !.ovf = TRUE]
  ELSE [w EXCEPT !.inst[d].provBound = @ + 1]

\* ---------------------------------------------------------- coordinator
TeardownStarted(w, d) == w.inst[d].destroyScheduled > 0 \/ w.inst[d].vmDestroyed

\* _cleanupDialog with the instance removed and destroyed at once instead of
\* in the setTimeout of line 1385
cleanupDialogNoDelay(w, d) ==
  IF d \notin w.activeDialogs THEN w
  ELSE LET w1 == unbindDialogEvents(w, d)
           s1 == w1.inst[d]
           s2 == stopTimer(stopPolling(
                   [s1 EXCEPT !.provBound = 0, !.dmFinal = FALSE, !.dmClose = FALSE]))
           s3 == [s2 EXCEPT !.destroyScheduled = Min({@ + 1, 2}), !.inDom = FALSE]
           s4 == [cleanup([s3 EXCEPT !.isDestroyed = TRUE])
                    EXCEPT !.vmDestroyed = TRUE, !.watching = FALSE]
       IN [w1 EXCEPT !.inst[d] = s4, !.activeDialogs = @ \ {d}]

\* _cleanupDialog
cleanupDialog(w, d) ==
  IF d \notin w.activeDialogs THEN w
  ELSE LET w1 == unbindDialogEvents(w, d)
           s1 == w1.inst[d]
           \* instance.$off(), instance.stopPolling(), instance.stopTimer()
           s2 == stopTimer(stopPolling(
                   [s1 EXCEPT !.provBound = 0, !.dmFinal = FALSE, !.dmClose = FALSE]))
           s3 == [s2 EXCEPT !.destroyScheduled = Min({@ + 1, 2})]
       IN [w1 EXCEPT !.inst[d] = s3,
                     !.destroyTimer[d] = ANIMATION_DELAY,
                     !.activeDialogs = @ \ {d}]

\* resolvePromise(value): a settled promise ignores a second resolve.
resolvePromise(c, by, value) ==
  [c EXCEPT !.resolveCalls = Min({@ + 1, 2}),
            !.settled = TRUE,
            !.value = IF c.settled THEN @ ELSE value,
            !.by = IF c.settled THEN @ ELSE by]

\* handleFinalStatus of openPaymentDialog without line 1236 (isResolved = true)
dmHandleFinalStatusNoFlag(w, d, status) ==
  IF w.ctrl[d].isResolved THEN w
  ELSE LET w1 == [w EXCEPT !.ctrl[d] = resolvePromise(@, "final-status", status)]
           w2 == cleanupDialog(w1, d)
       IN [w2 EXCEPT !.dialogPromises[w.inst[d].key] = 0]

\* handleFinalStatus of openPaymentDialog
dmHandleFinalStatus(w, d, status) ==
  IF w.ctrl[d].isResolved THEN w
  ELSE LET w1 == [w EXCEPT !.ctrl[d] =
                     resolvePromise([@ EXCEPT !.isResolved = TRUE], "final-status", status)]
           w2 == cleanupDialog(w1, d)
       IN [w2 EXCEPT !.dialogPromises[w.inst[d].key] = 0]

dmHandleClose(w, d, data) ==
  IF w.ctrl[d].isResolved THEN w
  ELSE LET value == IF data = "undefined" THEN "cancelled" ELSE data
           w1 == [w EXCEPT !.ctrl[d] =
                     resolvePromise([@ EXCEPT !.isResolved = TRUE], "close", value)]
           w2 == cleanupDialog(w1, d)
       IN [w2 EXCEPT !.dialogPromises[w.inst[d].key] = 0]

\* instance.$emit('final-status') and instance.$emit('close'): the coordinator
\* listens with $once, which removes the listener before it calls the handler.
EmitFinalStatus(w, d, status) ==
  IF w.inst[d].dmFinal
  THEN dmHandleFinalStatus([w EXCEPT !.inst[d].dmFinal = FALSE], d, status)
  ELSE w

EmitClose(w, d, data) ==
  IF w.inst[d].dmClose
  THEN dmHandleClose([w EXCEPT !.inst[d].dmClose = FALSE], d, data)
  ELSE w

controllerClose(w, d, result) ==
  IF w.ctrl[d].isResolved THEN w
  ELSE EmitClose(w, d, IF result = "undefined" THEN "cancelled" ELSE result)

getDialogController(w, d) ==
  IF d \in w.activeDialogs /\ \E k \in PaymentKeys : w.dialogPromises[k] = d THEN d ELSE 0

closeDialog(w, d, result) ==
  IF getDialogController(w, d) # 0 THEN controllerClose(w, d, result)
  ELSE cleanupDialog(w, d)

RECURSIVE CloseEach(_, _)
CloseEach(w, ds) ==
  IF ds = {} THEN w
  ELSE LET d == Min(ds) IN CloseEach(controllerClose(w, d, "cancelled"), ds \ {d})

RECURSIVE CleanupEach(_, _)
CleanupEach(w, ds) ==
  IF ds = {} THEN w
  ELSE LET d == Min(ds) IN CleanupEach(cleanupDialog(w, d), ds \ {d})

closeAllDialogs(w) ==
  LET controllers == {w.dialogPromises[k] : k \in PaymentKeys} \ {0}
      w1 == CloseEach(w, controllers)
      w2 == CleanupEach(w1, w1.activeDialogs)
  IN [w2 EXCEPT !.dialogPromises = [k \in PaymentKeys |-> 0]]


\* -------------------------------------------------- the session component
\* path follows the status sequence ActiveInit (1), Pending (2), Success (3).
NextPath(path, status) ==
  IF status = ACTIVE_INIT THEN 1
  ELSE IF path = 1 /\ status = PENDING THEN 2
  ELSE IF path = 2 /\ status = SUCCESS THEN 3
  ELSE 0

\* updateStatus on the instance of dialog d
SetStatus(w, d, status) ==
  LET s == w.inst[d]
      s1 == updateStatus(s, status)
  IN IF s1.currentStatus = s.currentStatus THEN w
     ELSE [w EXCEPT !.inst[d] = [s1 EXCEPT !.path = NextPath(s.path, status)]]

handleCloseDialog(s) == [s EXCEPT !.dialogVisible = FALSE]

\* handleFinalStatus of the component
handleFinalStatus(w, d, status) ==
  LET w1 == [w EXCEPT !.inst[d] = stopPolling(@)]
      w2 == EmitFinalStatus(w1, d, status)
  IN IF status = SUCCESS
     THEN LET s1 == ClearTimeoutField(w2.inst[d], "closeTimeout")
              h == FreshHandle(s1)
          IN [w2 EXCEPT !.inst[d] =
                [Arm(s1, "close", h, AUTO_CLOSE_DELAY) EXCEPT !.closeTimeout = h]]
     ELSE w2

\* watch.currentStatus(newStatus, oldStatus), run when the status the watcher
\* last saw differs from the current one
watchCurrentStatus(w, d, oldStatus) ==
  LET newStatus == w.inst[d].currentStatus IN
  IF ~w.inst[d].watching \/ newStatus = oldStatus THEN w
  ELSE LET w1 == IF isFinalStatus(newStatus) THEN handleFinalStatus(w, d, newStatus) ELSE w
           s1 == w1.inst[d]
           stopped == stopTimer([stopPolling(s1) EXCEPT !.timeLeft = Countdown])
           s2 == IF isActiveMode(s1)
                 THEN (IF isShowQrcode(s1) THEN startPolling(startTimer(s1)) ELSE stopped)
                 ELSE (IF newStatus = PROCESSING THEN startPolling(startTimer(s1))
                       ELSE stopped)
       IN [w1 EXCEPT !.inst[d] = s2]

queryPaymentStatus(w, d, silent) ==
  LET s == w.inst[d] IN
  IF s.isDestroyed \/ s.isQuerying THEN w
  ELSE LET s1 == [(IF silent THEN s ELSE setActionLoading(s, "query", TRUE))
                    EXCEPT !.isQuerying = TRUE]
           w1 == Request([w EXCEPT !.inst[d] = s1], d, "query")
           s2 == ClearTimeoutField(w1.inst[d], "queryTimeout")
           h == FreshHandle(s2)
       IN [w1 EXCEPT !.inst[d] =
             [Arm(s2, "query", h, QUERY_SETTLE_DELAY) EXCEPT !.queryTimeout = h]]

\* initPayment that starts the poller whatever autoPolling is
initPaymentAlwaysPolls(s) ==
  LET s1 == [s EXCEPT !.isDestroyed = FALSE, !.isQuerying = FALSE,
                      !.timeLeft = Countdown, !.scanMode = s.payScanMode]
      defaultStatus == IF isActiveMode(s1) THEN ACTIVE_INIT ELSE PASSIVE_INIT
      s2 == updateStatus(s1, defaultStatus)
      s3 == ClearTimeoutField(
              [s2 EXCEPT !.path = IF s2.currentStatus = s.currentStatus THEN @
                                  ELSE NextPath(@, defaultStatus)],
              "initTimeout")
      s4 == startPolling(s3)
      h == FreshHandle(s4)
  IN [Arm(s4, "init", h, INIT_EVENT_DELAY) EXCEPT !.initTimeout = h]

\* initPayment without the reset of isQuerying (line 570)
initPaymentKeepsQuerying(s) ==
  LET s1 == [s EXCEPT !.isDestroyed = FALSE,
                      !.timeLeft = Countdown, !.scanMode = s.payScanMode]
      defaultStatus == IF isActiveMode(s1) THEN ACTIVE_INIT ELSE PASSIVE_INIT
      s2 == updateStatus(s1, defaultStatus)
      s3 == ClearTimeoutField(
              [s2 EXCEPT !.path = IF s2.currentStatus = s.currentStatus THEN @
                                  ELSE NextPath(@, defaultStatus)],
              "initTimeout")
      s4 == IF s3.autoPolling THEN startPolling(s3) ELSE s3
      h == FreshHandle(s4)
  IN [Arm(s4, "init", h, INIT_EVENT_DELAY) EXCEPT !.initTimeout = h]

initPayment(s) ==
  LET s1 == [s EXCEPT !.isDestroyed = FALSE, !.isQuerying = FALSE,
                      !.timeLeft = Countdown, !.scanMode = s.payScanMode]
      defaultStatus == IF isActiveMode(s1) THEN ACTIVE_INIT ELSE PASSIVE_INIT
      s2 == updateStatus(s1, defaultStatus)
      s3 == ClearTimeoutField(
              [s2 EXCEPT !.path = IF s2.currentStatus = s.currentStatus THEN @
                                  ELSE NextPath(@, defaultStatus)],
              "initTimeout")
      s4 == IF s3.autoPolling THEN startPolling(s3) ELSE s3
      h == FreshHandle(s4)
  IN [Arm(s4, "init", h, INIT_EVENT_DELAY) EXCEPT !.initTimeout = h]

\* new DialogComponent({propsData}), $mount, appendChild.  The runtime sets up
\* the watchers in the order of the watch option: the handler of visible runs
\* at once (immediate), before the watcher of currentStatus exists, so the
\* status set by this first initPayment is the value that watcher starts from.
createVueDialogInstance(key, mode) ==
  LET s0 == [NoSession EXCEPT !.created = TRUE, !.key = key, !.payScanMode = mode,
                              !.autoPolling = (mode = ACTIVE), !.dialogVisible = TRUE]
      s1 == initPayment([cleanup(s0) EXCEPT !.isDestroyed = FALSE])
  IN [s1 EXCEPT !.watching = TRUE, !.inDom = TRUE]

\* beforeDestroy, then the runtime's own teardown of watchers and listeners
beforeDestroy(s) ==
  cleanup([s EXCEPT !.isDestroyed = TRUE, !.clickListenerAdded = FALSE])

destroyInstance(s) ==
  LET s1 == [s EXCEPT !.inDom = FALSE] IN
  IF s1.vmDestroyed THEN s1
  ELSE [beforeDestroy(s1) EXCEPT !.vmDestroyed = TRUE, !.watching = FALSE,
                                 !.provBound = 0, !.dmFinal = FALSE, !.dmClose = FALSE]

Close == "close"

\* getActionsForStatus that offers the active default actions in both modes
getActionsForStatusOneMode(status, mode) ==
  CASE status = PASSIVE_INIT -> {Close}
    [] status \in {ACTIVE_INIT, PROCESSING, PENDING} -> {"cancel", "refresh", "query"}
    [] status \in {WAITING, CANCELLED, CLOSED} -> {Close, "retry"}
    [] status \in {FAILED, TIMEOUT} -> {Close}
    [] OTHER -> {}

\* getActionsForStatus: the keys offered, and the handler behind key 'close'
getActionsForStatus(status, mode) ==
  CASE status = PASSIVE_INIT -> {Close}
    [] status = ACTIVE_INIT -> {"cancel", "refresh", "query"}
    [] status \in {WAITING, CANCELLED, CLOSED} -> {Close, "retry"}
    [] status \in {PROCESSING, PENDING} ->
         IF mode = ACTIVE THEN {"cancel", "refresh", "query"} ELSE {"cancel", "query"}
    [] status \in {FAILED, TIMEOUT} -> {Close}
    [] OTHER -> {}

CloseHandler(status) ==
  IF status \in {WAITING, CANCELLED, CLOSED} THEN "handleAbandonPayment"
  ELSE "handlePendingStatus"

\* handleAction(action) can run: the button is in the document and not loading
Offered(s, key) ==
  /\ s.created /\ s.inDom /\ s.dialogVisible
  /\ key \in getActionsForStatus(s.currentStatus, s.scanMode)
  /\ key \notin s.loading


\* ------------------------------------------------------ the error manager
\* The error codes the manager and PaymentError name.  The table of their
\* numbers is not part of the manager; the names stand for pairwise different,
\* non-zero codes.
\* A code is written by its name in ERROR_CODES; "" is no code.
\* createErrorCodeMapping, for the codes above
errorCodeMapping ==
  [code \in {"NETWORK_ERROR", "TIMEOUT_ERROR", "CONFIG_ERROR", "BUSINESS_ERROR",
             "PARAM_ERROR", "PERMISSION_ERROR", "SYSTEM_ERROR"} |->
     CASE code \in {"NETWORK_ERROR", "TIMEOUT_ERROR"} -> "NetworkError"
       [] code = "CONFIG_ERROR" -> "ConfigError"
       [] code = "BUSINESS_ERROR" -> "BusinessError"
       [] code = "PARAM_ERROR" -> "ParamError"
       [] code = "PERMISSION_ERROR" -> "PermissionError"
       [] code = "SYSTEM_ERROR" -> "SystemError"]

\* An error object: whether it is a PaymentError, its code, name and status
\* (0: none), the keywords its message contains, and where the text of the
\* message comes from.
Error(isPaymentError, code, name, status, keywords, text) ==
  [isPaymentError |-> isPaymentError, code |-> code, name |-> name,
   status |-> status, keywords |-> keywords, text |-> text]

NoError == Error(FALSE, "", "none", 0, {}, "none")

\* getErrorType(error)
getErrorType(error) ==
  IF error.code # "" /\ error.code \in DOMAIN errorCodeMapping
  THEN errorCodeMapping[error.code]
  ELSE IF error.name = "TypeError" /\ "fetch" \in error.keywords THEN "NetworkError"
  ELSE IF error.name = "AbortError" \/ "timeout" \in error.keywords THEN "NetworkError"
  ELSE IF error.status >= 400 /\ error.status < 500 THEN "BusinessError"
  ELSE IF error.status >= 500 THEN "SystemError"
  ELSE IF "network" \in error.keywords THEN "NetworkError"
  ELSE IF "permission" \in error.keywords THEN "PermissionError"
  ELSE IF "config" \in error.keywords THEN "ConfigError"
  ELSE IF "param" \in error.keywords THEN "ParamError"
  ELSE "SystemError"

\* The default handlers of setupDefaultHandlers: each builds a PaymentError
\* with the code of its class; the business and the parameter handler keep the
\* message of the error, the others put their own text.
errorHandler(errorType, error) ==
  CASE errorType = "NetworkError" ->
         Error(TRUE, "NETWORK_ERROR", "PaymentError", 0, {"network"}, "handler")
    [] errorType = "BusinessError" ->
         Error(TRUE, "BUSINESS_ERROR", "PaymentError", 0, error.keywords, error.text)
    [] errorType = "ConfigError" ->
         Error(TRUE, "CONFIG_ERROR", "PaymentError", 0, {"config"}, "handler")
    [] errorType = "ParamError" ->
         Error(TRUE, "PARAM_ERROR", "PaymentError", 0, error.keywords, error.text)
    [] errorType = "PermissionError" ->
         Error(TRUE, "PERMISSION_ERROR", "PaymentError", 0, {"permission"}, "handler")
    [] errorType = "SystemError" ->
         Error(TRUE, "SYSTEM_ERROR", "PaymentError", 0, {}, "handler")

\* PaymentError.isRetryable()
isRetryable(error) ==
  error.code \in {"NETWORK_ERROR", "TIMEOUT_ERROR", "SYSTEM_ERROR"}

\* this.maxHistorySize
maxHistorySize == 20

\* The manager: its history, the number of records it ever made (the
\* generated ids are modelled by the arrival number), its strategies.
TheManager ==
  [errorHistory |-> errorHistory, recorded |-> recorded,
   retryStrategies |-> retryStrategies]

\* recordError without the splice
recordErrorUnbounded(m, error) ==
  [m EXCEPT !.errorHistory = Append(@, [id |-> m.recorded + 1, code |-> error.code]),
            !.recorded = @ + 1]

\* recordError(error, context): push, then splice the oldest records away
recordError(m, error) ==
  LET pushed == Append(m.errorHistory, [id |-> m.recorded + 1, code |-> error.code])
      deleteCount == Len(pushed) - maxHistorySize
  IN [m EXCEPT !.errorHistory = IF Len(pushed) > maxHistorySize
                                THEN SubSeq(pushed, deleteCount + 1, Len(pushed))
                                ELSE pushed,
               !.recorded = @ + 1]

\* what handleError(error, context) returns
processedError(error) ==
  IF error.isPaymentError THEN error ELSE errorHandler(getErrorType(error), error)

\* handleError(error, context): the manager after it
handleError(m, error) == recordError(m, processedError(error))

\* A retry strategy
Strategy(maxRetries, baseDelay, maxDelay, backoffFactor, jitter) ==
  [maxRetries |-> maxRetries, baseDelay |-> baseDelay, maxDelay |-> maxDelay,
   backoffFactor |-> backoffFactor, jitter |-> jitter]

\* setupDefaultRetryStrategies
DefaultRetryStrategies ==
  [t \in {"NetworkError", "SystemError"} |->
     IF t = "NetworkError" THEN Strategy(3, 1000, 10000, 2, TRUE)
                           ELSE Strategy(2, 2000, 8000, 2, FALSE)]

\* getRetryStrategy(errorType) # null
hasRetryStrategy(strategies, errorType) == errorType \in DOMAIN strategies

\* Math.pow for natural exponents
RECURSIVE Pow(_, _)
Pow(base, exponent) ==
  IF exponent <= 0 THEN 1 ELSE base * Pow(base, exponent - 1)

\* calculateRetryDelay without the cap of maxDelay
calculateRetryDelayUncapped(strategies, errorType, attempt, random) ==
  IF ~hasRetryStrategy(strategies, errorType) THEN 1000
  ELSE LET strategy == strategies[errorType]
           delay == strategy.baseDelay * Pow(strategy.backoffFactor, attempt - 1)
       IN IF strategy.jitter THEN (delay * (1000 + random)) \div 2000 ELSE delay

\* calculateRetryDelay(errorType, attempt); random is Math.random() in
\* thousandths, so 0.5 + random * 0.5 is (1000 + random) / 2000.
calculateRetryDelay(strategies, errorType, attempt, random) ==
  IF ~hasRetryStrategy(strategies, errorType) THEN 1000
  ELSE LET strategy == strategies[errorType]
           delay == Min({strategy.baseDelay * Pow(strategy.backoffFactor, attempt - 1),
                         strategy.maxDelay})
       IN IF strategy.jitter THEN (delay * (1000 + random)) \div 2000 ELSE delay

\* ------------------------------------------------- the provider's failures
\* What a gateway request raises when the transport fails: a fetch TypeError,
\* an abort, a message with "timeout", an error with a network code.
TransportFailures ==
  {Error(FALSE, "", "TypeError", 0, {"fetch"}, "transport"),
   Error(FALSE, "", "AbortError", 0, {}, "transport"),
   Error(FALSE, "", "Error", 0, {"timeout"}, "transport"),
   Error(FALSE, "NETWORK_ERROR", "Error", 0, {}, "transport")}

\* createPayment and queryPaymentStatus of the provider on a response whose
\* code is not '200': throw new Error(data.message || data.msg || fallback).
\* The gateway's message may hold a keyword; the fallback text holds none.
GatewayRejections ==
  {Error(FALSE, "", "Error", 0, {}, "gateway"),
   Error(FALSE, "", "Error", 0, {"permission"}, "gateway"),
   Error(FALSE, "", "Error", 0, {}, "fallback")}

\* PaymentError.createParamError, thrown by the provider's checks
ParamFailure == Error(TRUE, "PARAM_ERROR", "PaymentError", 0, {}, "validation")

\* the other errors: one out of the dialog of processPayment, two with an
\* HTTP status out of a caller's own operation, and the one init() meets when
\* the configuration cannot be loaded
OtherFailures ==
  {Error(FALSE, "", "Error", 0, {}, "dialog"),
   Error(FALSE, "", "Error", 400, {}, "status"),
   Error(FALSE, "", "Error", 500, {}, "status"),
   Error(FALSE, "", "Error", 0, {}, "init")}

\* The request data: whether the required identifiers are there, and the
\* amount (orderAmount or refundAmount).
Params == [complete : BOOLEAN, amount : {-1, 0, 1}]

\* validate(paymentData): every required field is truthy
validate(params) == params.complete /\ params.amount # 0

\* the checks at the head of refund and refundResult
refundParamsValid(params) ==
  params.complete /\ ~(params.amount = 0 \/ params.amount <= 0)

\* --------------------------------------------------------------- the facade
FacadeOps ==
  {"processPayment", "createPayment", "queryPaymentStatus", "refund",
   "refundResult", "cancelPayment", "closePayment"}

\* What the facade does with each operation: whether the provider call is
\* wrapped in executeWithRetry, options.errorType and options.throwOriginal of
\* that call, the event emitted after the provider call returned and the one
\* emitted in the catch block ("": none).
Facade(op) ==
  [retrier |-> op \notin {"cancelPayment", "closePayment"},
   errorType |-> IF op \in {"createPayment", "queryPaymentStatus"}
                 THEN "NetworkError" ELSE "BusinessError",
   throwOriginal |-> op = "processPayment",
   successEvent |->
     CASE op = "processPayment" -> "paymentSuccess"
       [] op = "createPayment" -> "paymentCreated"
       [] op = "refund" -> "refundSuccess"
       [] op = "refundResult" -> "refundResultSuccess"
       [] op = "cancelPayment" -> "paymentCancelled"
       [] op = "closePayment" -> "paymentClosed"
       [] OTHER -> "",
   errorEvent |->
     CASE op \in {"processPayment", "createPayment"} -> "paymentError"
       [] op = "refund" -> "refundError"
       [] op = "refundResult" -> "refundResultError"
       [] OTHER -> ""]

\* The paymentData of isAggregatedPaymentEnabled: omitted, or supplied with
\* thirdSelfPayAmount, payType === ONLINE and the presence of onlineType.
NoData == [supplied |-> FALSE, amount |-> 0, online |-> FALSE, onlineType |-> FALSE]
PaymentData ==
  {NoData} \cup [supplied : {TRUE}, amount : {0, 1}, online : BOOLEAN,
                 onlineType : BOOLEAN]

\* isAggregatedPaymentEnabled(paymentData) of the provider, whose
\* config.paymentType is the provider's own
serviceIsAggregatedPaymentEnabled(data) ==
  /\ data.supplied
  /\ ~(data.amount <= 0)
  /\ data.online
  /\ data.onlineType

\* The call under way.  "operation" is a caller's own executeWithRetry; data,
\* predicateCalls and result belong to isAggregatedPaymentEnabled.
\* hasStrategy and strategy are the local strategy of executeWithRetry.
NoRun ==
  [pc |-> "idle", op |-> "none", retrier |-> FALSE, errorType |-> "SystemError",
   throwOriginal |-> FALSE, hasStrategy |-> FALSE,
   strategy |-> Strategy(0, 0, 0, 0, FALSE), params |-> [complete |-> TRUE, amount |-> 1],
   attempt |-> 0, invoked |-> 0, waits |-> <<>>, classified |-> 0,
   requests |-> 0, dialog |-> FALSE, lastError |-> NoError,
   outcome |-> "none", thrown |-> NoError, events |-> <<>>,
   data |-> NoData, predicateCalls |-> 0, result |-> FALSE]

\* the provider's check of the request data, per operation
paramsAccepted(op, params) ==
  CASE op = "processPayment" -> validate(params)
    [] op \in {"refund", "refundResult"} -> refundParamsValid(params)
    [] OTHER -> TRUE

\* operation() is called: the provider checks the data and, if it accepts
\* them, sends its gateway request or opens its dialog
invoke(r) ==
  LET accepted == paramsAccepted(r.op, r.params) IN
  [r EXCEPT !.pc = "calling",
            !.invoked = @ + 1,
            !.requests = IF accepted /\ r.op \notin {"processPayment", "operation"}
                         THEN @ + 1 ELSE @,
            !.dialog = @ \/ (accepted /\ r.op = "processPayment")]

\* the errors the operation under way can raise
possibleFailures(r) ==
  IF ~paramsAccepted(r.op, r.params) THEN {ParamFailure}
  ELSE CASE r.op = "processPayment" -> {e \in OtherFailures : e.text = "dialog"}
         [] r.op \in {"createPayment", "queryPaymentStatus", "cancelPayment"} ->
              TransportFailures \cup GatewayRejections
         [] r.op \in {"refund", "refundResult", "closePayment"} -> TransportFailures
         [] OTHER -> TransportFailures \cup GatewayRejections \cup {ParamFailure}
                       \cup {e \in OtherFailures : e.text = "status"}

\* const strategy = this.getRetryStrategy(errorType)
withStrategy(r, strategies) ==
  IF r.retrier /\ hasRetryStrategy(strategies, r.errorType)
  THEN [r EXCEPT !.hasStrategy = TRUE, !.strategy = strategies[r.errorType]]
  ELSE r

\* emit(event) of the facade
emit(r, event) == IF event = "" THEN r ELSE [r EXCEPT !.events = Append(@, event)]

\* a catch block that classifies what it rethrows
throwClassified(r, error) ==
  [emit(r, Facade(r.op).errorEvent) EXCEPT !.pc = "done", !.outcome = "thrown",
                                           !.thrown = processedError(error)]

\* the call ends: the facade's catch block, then the rejection
throw(r, error) ==
  [emit(r, Facade(r.op).errorEvent) EXCEPT !.pc = "done", !.outcome = "thrown",
                                    !.thrown = error]

\* ------------------------------------------------------ the service factory
\* A paymentType argument: a string with its value, or a value that is not a
\* string (null, a number).
PaymentTypeArgs ==
  {[isString |-> TRUE, value |-> v] : v \in {"", "2", "3", "9"}}
    \cup {[isString |-> FALSE, value |-> v] : v \in {"", "2"}}

\* new Map(): no service is cached
NoCache == [t \in {} |-> 0]

\* no create call was made yet
NoCreate == [paymentType |-> [isString |-> TRUE, value |-> ""], useCache |-> TRUE,
             outcome |-> "none", service |-> 0]

\* the factory
TheFactory == [serviceCache |-> serviceCache, instances |-> instances, created |-> created]

\* getServiceClassByType(paymentType) finds a class
getServiceClassByType(value) == value \in {"2", "3"}

\* createService that stores every instance it builds
createServiceAlwaysStore(f, paymentType, useCache) ==
  IF ~(paymentType.isString /\ paymentType.value # "")
  THEN [f EXCEPT !.created = [paymentType |-> paymentType, useCache |-> useCache,
                              outcome |-> "error", service |-> 0]]
  ELSE IF paymentType.value \in DOMAIN f.serviceCache /\ useCache
  THEN [f EXCEPT !.created = [paymentType |-> paymentType, useCache |-> useCache,
                              outcome |-> "returned",
                              service |-> f.serviceCache[paymentType.value]]]
  ELSE IF ~getServiceClassByType(paymentType.value)
  THEN [f EXCEPT !.created = [paymentType |-> paymentType, useCache |-> useCache,
                              outcome |-> "error", service |-> 0]]
  ELSE [serviceCache |->
          [t \in DOMAIN f.serviceCache \cup {paymentType.value} |->
             IF t = paymentType.value THEN f.instances + 1 ELSE f.serviceCache[t]],
        instances |-> f.instances + 1,
        created |-> [paymentType |-> paymentType, useCache |-> useCache,
                     outcome |-> "returned", service |-> f.instances + 1]]

\* createService(paymentType, config), useCache being config.useCache !== false;
\* an instance is named by the number of instances built so far
createService(f, paymentType, useCache) ==
  IF ~(paymentType.isString /\ paymentType.value # "")
  THEN [f EXCEPT !.created = [paymentType |-> paymentType, useCache |-> useCache,
                              outcome |-> "error", service |-> 0]]
  ELSE IF paymentType.value \in DOMAIN f.serviceCache /\ useCache
  THEN [f EXCEPT !.created = [paymentType |-> paymentType, useCache |-> useCache,
                              outcome |-> "returned",
                              service |-> f.serviceCache[paymentType.value]]]
  ELSE IF ~getServiceClassByType(paymentType.value)
  THEN [f EXCEPT !.created = [paymentType |-> paymentType, useCache |-> useCache,
                              outcome |-> "error", service |-> 0]]
  ELSE [serviceCache |->
          IF useCache
          THEN [t \in DOMAIN f.serviceCache \cup {paymentType.value} |->
                  IF t = paymentType.value THEN f.instances + 1 ELSE f.serviceCache[t]]
          ELSE f.serviceCache,
        instances |-> f.instances + 1,
        created |-> [paymentType |-> paymentType, useCache |-> useCache,
                     outcome |-> "returned", service |-> f.instances + 1]]

SetFactory(f) ==
  /\ serviceCache' = f.serviceCache
  /\ instances' = f.instances
  /\ created' = f.created

\* ------------------------------------------------ the provider's gateway calls
\* The cancelPayment under way on the provider: the session it was called
\* for, its params, the payOrderNo of its queryParams, the order number that
\* session's own createPayment was given (own), the paymentStatus the query
\* answered, and the gateway requests sent so far, each with the payOrderNo
\* it carries.
NoCancel ==
  [pc |-> "idle", session |-> 0, params |-> [complete |-> TRUE, amount |-> 1],
   payOrderNo |-> 0, own |-> 0, status |-> NoStatus, requests |-> <<>>,
   outcome |-> "none"]

\* The provider instance: this.payOrderNo (0 is ''), the order numbers the
\* gateway has issued, the one each session's createPayment was answered
\* with, the sessions whose createPayment is in flight, and the cancel.
\* For one active dialog of the provider: its currentStatus and isQuerying,
\* and the calls of queryStatusHandler and cancelPaymentHandler that await
\* their gateway call, in the order of their events (late: the handler of a
\* later event has changed the status meanwhile).
\* this.revertHandler is named by the session whose paymentInfo its closure
\* holds (0 is null); result is what the last processPayment to return has
\* returned: the session it was called for and the revertHandler it carries.
NoProvider ==
  [payOrderNo |-> 0, issued |-> 0, orders |-> [d \in DialogIds |-> 0],
   creating |-> {}, cancel |-> NoCancel,
   revertHandler |-> 0, result |-> [session |-> 0, revertHandler |-> 0],
   currentStatus |-> ACTIVE_INIT, isQuerying |-> FALSE, handlers |-> <<>>]

\* an event of the dialog reaches its handler, which awaits its gateway call
handlerCalled(p, kind) ==
  [p EXCEPT !.handlers = Append(@, [kind |-> kind, late |-> FALSE])]

\* The gateway call of the i-th waiting handler completes and the handler
\* goes on: queryStatusHandler calls updateStatus(data.paymentStatus) unless
\* the call failed, cancelPaymentHandler calls updateStatus(WAITING) either
\* way.  The handlers of earlier events that still wait become late if the
\* status changed.
handlerResumes(p, i, answer) ==
  LET h == p.handlers[i]
      status == IF h.kind = "cancel" THEN WAITING
                ELSE IF answer = QueryError THEN NoStatus ELSE answer
      changed == status # NoStatus /\ status # p.currentStatus
  IN [p EXCEPT
        !.currentStatus = IF changed THEN status ELSE @,
        !.handlers =
          [j \in 1..(Len(p.handlers) - 1) |->
             LET k == IF j < i THEN j ELSE j + 1 IN
             IF changed /\ k < i THEN [p.handlers[k] EXCEPT !.late = TRUE]
             ELSE p.handlers[k]]]

\* getPayApiParams(params): payOrderNo is this.payOrderNo || ''
getPayApiParams(p, params) ==
  [complete |-> params.complete, payOrderNo |-> p.payOrderNo]

\* the cancel sends a gateway request built from its queryParams and awaits
\* the answer
send(c, api) ==
  [c EXCEPT !.pc = api,
            !.requests = Append(@, [api |-> api, payOrderNo |-> c.payOrderNo])]

\* refund(queryParams) and refundResult(params) inside the cancel: the
\* parameter checks, then the request
refund(c, api) ==
  IF refundParamsValid(c.params) THEN send(c, api)
  ELSE [c EXCEPT !.pc = "done", !.outcome = "thrown"]

\* cancelPayment(params) up to its first await: the status query
cancelPayment(p, session, params) ==
  send([NoCancel EXCEPT !.session = session, !.params = params,
                        !.payOrderNo = getPayApiParams(p, params).payOrderNo,
                        !.own = p.orders[session]],
       "query")

\* cancelPayment goes on after the gateway answered the request it awaits:
\* ok is whether the request succeeded, status the paymentStatus of a
\* successful query
cancelResumes(c, ok, status) ==
  CASE ~ok -> [c EXCEPT !.pc = "done", !.outcome = "thrown"]
    [] ok /\ c.pc = "query" ->
         LET q == [c EXCEPT !.status = status] IN
         IF status = NoStatus THEN [q EXCEPT !.pc = "done", !.outcome = "returned"]
         ELSE IF status = SUCCESS THEN refund(q, "refund")
         ELSE IF status \in {PENDING, PROCESSING} THEN send(q, "close")
         ELSE [q EXCEPT !.pc = "done", !.outcome = "returned"]
    [] ok /\ c.pc = "refund" -> refund(c, "refundResult")
    [] OTHER -> [c EXCEPT !.pc = "done", !.outcome = "returned"]

\* ------------------------------------------------------- the event emitter
\* The events of the model: one ordinary event and the reserved 'error'.
EventNames == {"pay", "error"}

\* A registered callback.  wrapper is 0 for a function handed to on(), and
\* the number of the onceWrapper for one made by once(); kind is what the
\* function (the wrapped callback, for a wrapper) does when called:
\*   "plain" returns, "throws" throws, "offSelf" unsubscribes itself,
\*   "offOther" unsubscribes the plain handler, "onNew" registers the plain
\*   handler, "reemit" emits the same event again the first time it is called.
Listener(kind, wrapper) == [kind |-> kind, wrapper |-> wrapper]

\* this.events (an event without listeners has no entry), the wrappers made,
\* the flag of the "reemit" callback, and the record of the last emit() of a
\* caller: its event, the listeners at the call, the calls it made to
\* listeners (log: at depth 1 by this emit, deeper by emits nested in it),
\* the emits of 'error' from catch blocks, how it ended, and the number of
\* calls of each onceWrapper so far.
NoEmitter ==
  [events |-> [e \in EventNames |-> <<>>], wrappers |-> 0, reemitted |-> FALSE,
   event |-> "none", snapshot |-> <<>>, log |-> <<>>, republished |-> <<>>,
   raised |-> FALSE, result |-> "none",
   invoked |-> [w \in 1..MaxWrappers |-> 0], emits |-> 0]

\* on(event, callback)
on(E, event, listener) == [E EXCEPT !.events[event] = Append(@, listener)]

\* off(event, callback): splice at indexOf(callback)
off(E, event, listener) ==
  LET listeners == E.events[event]
      found == {i \in 1..Len(listeners) : listeners[i] = listener}
  IN IF found = {} THEN E
     ELSE [E EXCEPT !.events[event] =
             SubSeq(listeners, 1, Min(found) - 1)
               \o SubSeq(listeners, Min(found) + 1, Len(listeners))]

\* once(event, callback): on(event, onceWrapper) with a new wrapper
once(E, event, kind) ==
  on([E EXCEPT !.wrappers = @ + 1], event, Listener(kind, E.wrappers + 1))

RECURSIVE emitEvent(_, _, _, _), forEachListener(_, _, _, _, _)

\* emit(event, ...args) at the given nesting depth.  Beyond StackLimit the
\* call stack is exhausted: a RangeError is raised, and since every frame
\* below is in a catch block or fails again, it reaches the first caller.
emitEvent(E, event, arg, depth) ==
  IF depth > StackLimit THEN [E EXCEPT !.raised = TRUE]
  ELSE forEachListener(E, event, arg, E.events[event], depth)

\* listeners.forEach over what is left of the copy: try { callback(...args) }
\* catch { this.emit('error', error, event) }.  A onceWrapper calls its
\* callback and then this.off(event, onceWrapper).
forEachListener(E, event, arg, listeners, depth) ==
  IF listeners = <<>> \/ E.raised THEN E
  ELSE LET h == Head(listeners)
           called == [E EXCEPT
                        !.log = Append(@, [event |-> event, listener |-> h,
                                           depth |-> depth, arg |-> arg]),
                        !.invoked = IF h.wrapper = 0 THEN @
                                    ELSE [@ EXCEPT ![h.wrapper] = @ + 1]]
           threw == h.kind = "throws"
           body == CASE h.kind = "offSelf" -> off(called, event, h)
                     [] h.kind = "offOther" -> off(called, event, Listener("plain", 0))
                     [] h.kind = "onNew" -> on(called, event, Listener("plain", 0))
                     [] h.kind = "reemit" /\ ~called.reemitted ->
                          emitEvent([called EXCEPT !.reemitted = TRUE], event, arg, depth + 1)
                     [] OTHER -> called
           wrapped == IF h.wrapper # 0 /\ ~threw /\ ~body.raised
                      THEN off(body, event, h) ELSE body
           caught == IF threw /\ ~wrapped.raised
                     THEN emitEvent([wrapped EXCEPT
                                       !.republished = Append(@, [from |-> event,
                                                                  depth |-> depth])],
                                    "error", event, depth + 1)
                     ELSE wrapped
       IN forEachListener(caught, event, arg, Tail(listeners), depth)

\* emit(event, payload) called by a caller: false when the event has no
\* entry, else listeners.length > 0 of the copy, unless an error escapes
emit1(E, event) ==
  LET snapshot == E.events[event]
      done == emitEvent([E EXCEPT !.event = event, !.snapshot = snapshot, !.log = <<>>,
                                  !.republished = <<>>, !.raised = FALSE,
                                  !.emits = @ + 1],
                        event, "payload", 1)
  IN [done EXCEPT !.result = IF done.raised THEN "raised"
                             ELSE IF snapshot = <<>> THEN "false"
                             ELSE IF Len(snapshot) > 0 THEN "true" ELSE "false"]

\* ------------------------------------------------- the lives of providers
NoServices == [paymentService |-> 0, destroyed |-> {}]

\* BasePaymentService.destroy() on each of the instances: config and logger
\* become null
destroy(v, instanceSet) == [v EXCEPT !.destroyed = @ \cup (instanceSet \ {0})]

\* ------------------------------------------------------------- the state
Init ==
  /\ inst = [d \in DialogIds |-> NoSession]
  /\ activeDialogs = {}
  /\ dialogPromises = [k \in PaymentKeys |-> 0]
  /\ ctrl = [d \in DialogIds |-> NoController]
  /\ destroyTimer = [d \in DialogIds |-> -1]
  /\ currentDialogInstance = 0
  /\ net = [d \in DialogIds |-> NoRequests]
  /\ calls = [c \in Calls |-> [pc |-> "idle", key |-> 0, d |-> 0]]
  /\ nextId = 1
  /\ clicks = 0
  /\ errorHistory = <<>>
  /\ recorded = 0
  /\ retryStrategies = DefaultRetryStrategies
  /\ initialized = FALSE
  /\ paymentEnabled = "none"
  /\ run = NoRun
  /\ serviceCache = NoCache
  /\ instances = 0
  /\ created = NoCreate
  /\ provider = NoProvider
  /\ emitter = NoEmitter
  /\ services = NoServices

\* A continuation of an await is queued: it runs before the next timer,
\* response or click.
MicrotaskPending ==
  \E c \in Calls :
    \/ calls[c].pc \in {"opening", "opened", "binding"}
    \/ calls[c].pc = "waiting" /\ ctrl[calls[c].d].settled

Macrotask == ~MicrotaskPending

\* ------------------------------------------- provider and coordinator steps
\* GuoweiPaymentService.processPayment up to the first await that suspends:
\* validate, showPaymentDialog, and openPaymentDialog up to
\* await _createVueDialogInstance.
ProcessPayment(c, k, mode, valid) ==
  /\ calls[c].pc = "idle"
  /\ IF ~valid
     THEN \* catch of processPayment
          /\ Apply([unbindDialogEvents(World, currentDialogInstance)
                      EXCEPT !.currentDialogInstance = 0])
          /\ UNCHANGED calls
          /\ UNCHANGED <<nextId, clicks, managerVars, serviceVars>>
     ELSE IF dialogPromises[k] # 0
     THEN \* dedup hit: the stored controller is returned
          /\ calls' = [calls EXCEPT ![c] = [pc |-> "opened", key |-> k, d |-> dialogPromises[k]]]
          /\ UNCHANGED <<inst, activeDialogs, dialogPromises, ctrl, destroyTimer,
                         currentDialogInstance, net, nextId, clicks, managerVars, serviceVars>>
     ELSE /\ nextId <= MaxDialogs
          /\ inst' = [inst EXCEPT ![nextId] = createVueDialogInstance(k, mode)]
          /\ calls' = [calls EXCEPT ![c] = [pc |-> "opening", key |-> k, d |-> nextId]]
          /\ nextId' = nextId + 1
          /\ UNCHANGED <<activeDialogs, dialogPromises, ctrl, destroyTimer,
                         currentDialogInstance, net, clicks, managerVars, serviceVars>>

\* openPaymentDialog after the await: activeDialogs.set, the two $once
\* listeners, the controller, dialogPromises.set
OpenResume(c) ==
  /\ calls[c].pc = "opening"
  /\ LET d == calls[c].d IN
     /\ Apply([World EXCEPT !.activeDialogs = @ \cup {d},
                            !.inst[d].dmFinal = TRUE,
                            !.inst[d].dmClose = TRUE,
                            !.ctrl[d] = [NoController EXCEPT !.exists = TRUE],
                            !.dialogPromises[calls[c].key] = d])
     /\ calls' = [calls EXCEPT ![c].pc = "opened"]
  /\ UNCHANGED <<nextId, clicks, managerVars, serviceVars>>

\* showPaymentDialog after await openPaymentDialog, up to await $nextTick
AfterOpen(c) ==
  /\ calls[c].pc = "opened"
  /\ Apply([World EXCEPT !.currentDialogInstance = calls[c].d])
  /\ calls' = [calls EXCEPT ![c].pc = "binding"]
  /\ UNCHANGED <<nextId, clicks, managerVars, serviceVars>>

\* showPaymentDialog: _bindDialogEvents, up to await waitForResult
BindEvents(c) ==
  /\ calls[c].pc = "binding"
  /\ Apply(bindDialogEvents(World, calls[c].d))
  /\ calls' = [calls EXCEPT ![c].pc = "waiting"]
  /\ UNCHANGED <<nextId, clicks, managerVars, serviceVars>>

\* showPaymentDialog after await waitForResult
ResultDelivered(c) ==
  /\ calls[c].pc = "waiting"
  /\ ctrl[calls[c].d].settled
  /\ Apply([unbindDialogEvents(World, calls[c].d) EXCEPT !.currentDialogInstance = 0])
  /\ calls' = [calls EXCEPT ![c] = [pc |-> "idle", key |-> 0, d |-> 0]]
  /\ UNCHANGED <<nextId, clicks, managerVars, serviceVars>>

\* the holder of a controller calls controller.close(result)
ControllerClose(d, result) ==
  /\ ctrl[d].exists
  /\ Apply(controllerClose(World, d, result))
  /\ UNCHANGED <<calls, nextId, clicks, managerVars, serviceVars>>

CloseDialog(d, result) ==
  /\ inst[d].created
  /\ Apply(closeDialog(World, d, result))
  /\ UNCHANGED <<calls, nextId, clicks, managerVars, serviceVars>>

CloseAllDialogs ==
  /\ Apply(closeAllDialogs(World))
  /\ UNCHANGED <<calls, nextId, clicks, managerVars, serviceVars>>

\* the timer of _cleanupDialog fires: removeChild, $destroy
DestroyTimerFire(d) ==
  /\ Macrotask
  /\ destroyTimer[d] = 0
  /\ Apply([World EXCEPT !.inst[d] = destroyInstance(@), !.destroyTimer[d] = -1])
  /\ UNCHANGED <<calls, nextId, clicks, managerVars, serviceVars>>


\* ---------------------------------------------------- the session's timers
Due(d, kind) == {t \in inst[d].live : t.kind = kind /\ t.rem = 0}

Rearm(s, t, period) == [s EXCEPT !.live = (@ \ {t}) \cup {[t EXCEPT !.rem = period]}]

Fired(s, t) == [s EXCEPT !.live = @ \ {t}]

\* the setInterval callback of startTimer
TimerTick(d) ==
  /\ Macrotask
  /\ \E t \in Due(d, "timer") :
       LET s == Rearm(inst[d], t, TIMER_INTERVAL)
           s1 == IF s.isDestroyed THEN stopTimer(s)
                 ELSE IF s.timeLeft > 0 THEN [s EXCEPT !.timeLeft = @ - 1]
                 ELSE stopPolling(stopTimer(s))
       IN Apply([World EXCEPT !.inst[d] = s1])
  /\ UNCHANGED <<calls, nextId, clicks, managerVars, serviceVars>>

\* the setInterval callback of startPolling
PollFire(d) ==
  /\ Macrotask
  /\ \E t \in Due(d, "poll") :
       LET w == [World EXCEPT !.inst[d] = Rearm(@, t, pollingInterval)] IN
       Apply(IF w.inst[d].isDestroyed THEN [w EXCEPT !.inst[d] = stopPolling(@)]
             ELSE queryPaymentStatus(w, d, TRUE))
  /\ UNCHANGED <<calls, nextId, clicks, managerVars, serviceVars>>

\* the setTimeout callback of initPayment: $emit('init-dialog'), which starts
\* createPayment in initDialogHandler when the scan mode is active
InitTimeoutFire(d) ==
  /\ Macrotask
  /\ \E t \in Due(d, "init") :
       LET w == [World EXCEPT !.inst[d] = Fired(@, t)]
           s == w.inst[d]
       IN Apply(IF s.isDestroyed THEN w
                ELSE LET w1 == IF s.payScanMode = ACTIVE THEN Request(w, d, "init") ELSE w
                     IN [w1 EXCEPT !.inst[d].clickListenerAdded = @ \/ ~isActiveMode(s),
                                   !.inst[d].initTimeout = 0])
  /\ UNCHANGED <<calls, nextId, clicks, managerVars, serviceVars>>

\* the setTimeout callback of queryPaymentStatus
QueryTimeoutFire(d) ==
  /\ Macrotask
  /\ \E t \in Due(d, "query") :
       LET s == Fired(inst[d], t) IN
       Apply([World EXCEPT !.inst[d] =
                [s EXCEPT !.isQuerying = IF s.isDestroyed THEN @ ELSE FALSE,
                          !.queryTimeout = 0]])
  /\ UNCHANGED <<calls, nextId, clicks, managerVars, serviceVars>>

\* the setTimeout callback of handleFinalStatus
CloseTimeoutFire(d) ==
  /\ Macrotask
  /\ \E t \in Due(d, "close") :
       LET s == Fired(inst[d], t)
           s1 == IF s.isDestroyed THEN s
                 ELSE [handleCloseDialog(s) EXCEPT !.autoClosed = Min({@ + 1, 2})]
       IN Apply([World EXCEPT !.inst[d] = [s1 EXCEPT !.closeTimeout = 0]])
  /\ UNCHANGED <<calls, nextId, clicks, managerVars, serviceVars>>

AllRemaining ==
  UNION {{t.rem : t \in inst[d].live} : d \in DialogIds}
    \cup {destroyTimer[d] : d \in {e \in DialogIds : destroyTimer[e] >= 0}}

\* time passes until the next deadline
Advance ==
  /\ Macrotask
  /\ AllRemaining # {}
  /\ 0 \notin AllRemaining
  /\ LET delta == Min(AllRemaining) IN
     /\ inst' = [d \in DialogIds |->
                   [inst[d] EXCEPT !.live = {[t EXCEPT !.rem = @ - delta] : t \in @}]]
     /\ destroyTimer' = [d \in DialogIds |->
                           IF destroyTimer[d] >= 0 THEN destroyTimer[d] - delta ELSE -1]
  /\ UNCHANGED <<activeDialogs, dialogPromises, ctrl, currentDialogInstance, net,
                 calls, nextId, clicks, managerVars, serviceVars>>

\* ------------------------------------------------ the provider's callbacks
\* the awaited gateway call of a handler completes and the handler goes on
Deliver(w1, d, kind) ==
  Apply([w1 EXCEPT !.net[d][kind] = @ - 1])

\* queryStatusHandler after await queryPaymentStatus
QueryResponse(d, r) ==
  /\ Macrotask
  /\ net[d].query > 0
  /\ LET old == inst[d].currentStatus
         w1 == IF r = QueryError THEN World ELSE SetStatus(World, d, r)
         w2 == [w1 EXCEPT !.inst[d] = setActionLoading(@, "query", FALSE)]
     IN Deliver(watchCurrentStatus(w2, d, old), d, "query")
  /\ UNCHANGED <<calls, nextId, clicks, managerVars, serviceVars>>

\* initDialogHandler after await createPayment
InitResponse(d, ok) ==
  /\ Macrotask
  /\ net[d].init > 0
  /\ LET old == inst[d].currentStatus
         w1 == IF ok THEN World ELSE SetStatus(World, d, FAILED)
     IN Deliver(watchCurrentStatus(w1, d, old), d, "init")
  /\ UNCHANGED <<calls, nextId, clicks, managerVars, serviceVars>>


\* cancelPaymentHandler after await cancelPayment: the try block (ok) and the
\* catch block do the same
CancelResponse(d, ok) ==
  /\ Macrotask
  /\ ok \in BOOLEAN
  /\ net[d].cancel > 0
  /\ LET old == inst[d].currentStatus
         w1 == SetStatus(World, d, WAITING)
         w2 == [w1 EXCEPT !.inst[d] = setActionLoading(@, "cancel", FALSE)]
     IN Deliver(watchCurrentStatus(w2, d, old), d, "cancel")
  /\ UNCHANGED <<calls, nextId, clicks, managerVars, serviceVars>>

\* retryPaymentHandler after await cancelPayment: the try block (ok) and the
\* catch block do the same
RetryResponse(d, ok) ==
  /\ Macrotask
  /\ ok \in BOOLEAN
  /\ net[d].retry > 0
  /\ Deliver([World EXCEPT !.inst[d] = setActionLoading(@, "retry", FALSE)], d, "retry")
  /\ UNCHANGED <<calls, nextId, clicks, managerVars, serviceVars>>

\* abandonPaymentHandler after await cancelPayment
AbandonResponse(d) ==
  /\ Macrotask
  /\ net[d].abandon > 0
  /\ Deliver(World, d, "abandon")
  /\ UNCHANGED <<calls, nextId, clicks, managerVars, serviceVars>>

\* refreshQrcodeHandler after cancelPayment and createPayment
RefreshResponse(d, ok) ==
  /\ Macrotask
  /\ net[d].refresh > 0
  /\ LET old == inst[d].currentStatus
         w1 == [World EXCEPT !.inst[d] = setActionLoading(@, "refresh", FALSE)]
         w2 == IF ok THEN w1 ELSE SetStatus(w1, d, FAILED)
     IN Deliver(watchCurrentStatus(w2, d, old), d, "refresh")
  /\ UNCHANGED <<calls, nextId, clicks, managerVars, serviceVars>>

\* createPaymentHandler after await createPayment
CreateResponse(d, ok) ==
  /\ Macrotask
  /\ net[d].create > 0
  /\ LET old == inst[d].currentStatus
         w1 == IF ok THEN World ELSE SetStatus(World, d, FAILED)
     IN Deliver(watchCurrentStatus(w1, d, old), d, "create")
  /\ UNCHANGED <<calls, nextId, clicks, managerVars, serviceVars>>

\* ------------------------------------------------------- the user's actions
\* handleQueryStatus
ClickQuery(d) ==
  /\ Macrotask
  /\ Offered(inst[d], "query")
  /\ Apply(queryPaymentStatus(World, d, FALSE))
  /\ clicks < MaxClicks /\ clicks' = clicks + 1 /\ UNCHANGED <<calls, nextId, managerVars, serviceVars>>

\* handleCancelPayment
ClickCancel(d) ==
  /\ Macrotask
  /\ Offered(inst[d], "cancel")
  /\ Apply(Request([World EXCEPT !.inst[d] =
                      setActionLoading(stopPolling(@), "cancel", TRUE)], d, "cancel"))
  /\ clicks < MaxClicks /\ clicks' = clicks + 1 /\ UNCHANGED <<calls, nextId, managerVars, serviceVars>>

\* handleRefreshQrCode
ClickRefresh(d) ==
  /\ Macrotask
  /\ Offered(inst[d], "refresh")
  /\ Apply(Request([World EXCEPT !.inst[d] =
                      setActionLoading(stopPolling(@), "refresh", TRUE)], d, "refresh"))
  /\ clicks < MaxClicks /\ clicks' = clicks + 1 /\ UNCHANGED <<calls, nextId, managerVars, serviceVars>>

\* handleRetryPayment
ClickRetry(d) ==
  /\ Macrotask
  /\ Offered(inst[d], "retry")
  /\ LET old == inst[d].currentStatus
         w1 == Request([World EXCEPT !.inst[d] = setActionLoading(@, "retry", TRUE)],
                       d, "retry")
         w2 == [w1 EXCEPT !.inst[d] = initPayment(@)]
     IN Apply(watchCurrentStatus(w2, d, old))
  /\ clicks < MaxClicks /\ clicks' = clicks + 1 /\ UNCHANGED <<calls, nextId, managerVars, serviceVars>>

\* handleAbandonPayment: the user confirms or dismisses the confirmation
ClickAbandon(d, confirmed) ==
  /\ Macrotask
  /\ Offered(inst[d], Close)
  /\ CloseHandler(inst[d].currentStatus) = "handleAbandonPayment"
  /\ LET old == inst[d].currentStatus
         w1 == IF confirmed THEN SetStatus(Request(World, d, "abandon"), d, ABANDONED)
               ELSE World
         w2 == [w1 EXCEPT !.inst[d] = setActionLoading(@, Close, FALSE)]
     IN Apply(watchCurrentStatus(w2, d, old))
  /\ clicks < MaxClicks /\ clicks' = clicks + 1 /\ UNCHANGED <<calls, nextId, managerVars, serviceVars>>

\* handlePendingStatus
ClickBack(d) ==
  /\ Macrotask
  /\ Offered(inst[d], Close)
  /\ CloseHandler(inst[d].currentStatus) = "handlePendingStatus"
  /\ LET old == inst[d].currentStatus IN
     Apply(watchCurrentStatus(SetStatus(World, d, WAITING), d, old))
  /\ clicks < MaxClicks /\ clicks' = clicks + 1 /\ UNCHANGED <<calls, nextId, managerVars, serviceVars>>

\* handlePayQRCodeChange: the scanner fills the input shown in PassiveInit
ScanCode(d) ==
  /\ Macrotask
  /\ inst[d].created /\ inst[d].inDom /\ inst[d].dialogVisible
  /\ inst[d].currentStatus = PASSIVE_INIT /\ ~isActiveMode(inst[d])
  /\ LET old == inst[d].currentStatus
         w1 == Request(SetStatus(World, d, PROCESSING), d, "create")
     IN Apply(watchCurrentStatus(w1, d, old))
  /\ clicks < MaxClicks /\ clicks' = clicks + 1 /\ UNCHANGED <<calls, nextId, managerVars, serviceVars>>

\* ------------------------------------------------------ the specifications
\* The coordinator under concurrent callers: two calls may be in flight for
\* one key, each session runs its timers and its status polling, and the
\* gateway answers a query with Success or fails.  No status change starts
\* the countdown here (that takes Pending or Processing), and the teardown
\* that Success starts clears the auto-close timer before it is due, so the
\* callbacks of these two timers are steps of SpecSession only.
Next ==
  \/ \E c \in Calls, k \in Keys, mode \in SCAN_MODES :
       ProcessPayment(c, k, mode, TRUE)
  \/ \E c \in Calls : OpenResume(c)
  \/ \E c \in Calls : AfterOpen(c)
  \/ \E c \in Calls : BindEvents(c)
  \/ \E c \in Calls : ResultDelivered(c)
  \/ \E d \in DialogIds, r \in CloseResults : ControllerClose(d, r)
  \/ \E d \in DialogIds, r \in CloseResults : CloseDialog(d, r)
  \/ CloseAllDialogs
  \/ \E d \in DialogIds : DestroyTimerFire(d)
  \/ \E d \in DialogIds : PollFire(d)
  \/ \E d \in DialogIds : InitTimeoutFire(d)
  \/ \E d \in DialogIds : QueryTimeoutFire(d)
  \/ Advance
  \/ \E d \in DialogIds, r \in {SUCCESS, QueryError} : QueryResponse(d, r)
  \/ \E d \in DialogIds, ok \in BOOLEAN : InitResponse(d, ok)

Spec == Init /\ [][Next]_vars

\* One session from its creation to its destruction, with everything the user
\* and the gateway can do to it.
NextSession ==
  \/ \E c \in Calls, k \in Keys, mode \in SCAN_MODES, valid \in BOOLEAN :
       (nextId = 1 \/ ~valid) /\ ProcessPayment(c, k, mode, valid)
  \/ \E c \in Calls : OpenResume(c)
  \/ \E c \in Calls : AfterOpen(c)
  \/ \E c \in Calls : BindEvents(c)
  \/ \E c \in Calls : ResultDelivered(c)
  \/ \E r \in CloseResults : ControllerClose(1, r)
  \/ \E r \in CloseResults : CloseDialog(1, r)
  \/ CloseAllDialogs
  \/ DestroyTimerFire(1)
  \/ TimerTick(1)
  \/ PollFire(1)
  \/ InitTimeoutFire(1)
  \/ QueryTimeoutFire(1)
  \/ CloseTimeoutFire(1)
  \/ Advance
  \/ \E r \in GatewayStatuses \cup {NoStatus, QueryError} : QueryResponse(1, r)
  \/ \E ok \in BOOLEAN : InitResponse(1, ok)
  \/ \E ok \in BOOLEAN : CancelResponse(1, ok)
  \/ \E ok \in BOOLEAN : RetryResponse(1, ok)
  \/ AbandonResponse(1)
  \/ \E ok \in BOOLEAN : RefreshResponse(1, ok)
  \/ \E ok \in BOOLEAN : CreateResponse(1, ok)
  \/ ClickQuery(1)
  \/ ClickCancel(1)
  \/ ClickRefresh(1)
  \/ ClickRetry(1)
  \/ \E confirmed \in BOOLEAN : ClickAbandon(1, confirmed)
  \/ ClickBack(1)
  \/ ScanCode(1)

SpecSession == Init /\ [][NextSession]_vars

\* isAggregatedPaymentEnabled that goes to the provider's predicate whatever
\* paymentEnabled is
aggregatedCheckUnconditional(r, enabled) ==
  IF r.data.supplied
  THEN [r EXCEPT !.pc = "predicate", !.predicateCalls = @ + 1]
  ELSE [r EXCEPT !.pc = "done", !.outcome = "returned", !.result = FALSE]

\* isAggregatedPaymentEnabled after ensureInitialized: the test of
\* config.paymentEnabled, then the call of the provider's predicate
aggregatedCheck(r, enabled) ==
  IF enabled # "1"
  THEN [r EXCEPT !.pc = "done", !.outcome = "returned", !.result = FALSE]
  ELSE IF r.data.supplied
  THEN [r EXCEPT !.pc = "predicate", !.predicateCalls = @ + 1]
  ELSE [r EXCEPT !.pc = "done", !.outcome = "returned", !.result = FALSE]

\* what the call under way does once init() has succeeded
afterInit(r, strategies, enabled) ==
  CASE r.op = "isAggregatedPaymentEnabled" -> aggregatedCheck(r, enabled)
    [] r.op = "reloadConfig" ->
         [emit(r, "config:reloaded") EXCEPT !.pc = "done", !.outcome = "returned"]
    [] OTHER -> invoke(withStrategy(r, strategies))

\* init() has thrown: isAggregatedPaymentEnabled catches it and returns
\* false, every other call rejects with it
initFailed(r) ==
  IF r.op = "isAggregatedPaymentEnabled"
  THEN [r EXCEPT !.pc = "done", !.outcome = "returned", !.result = FALSE]
  ELSE [r EXCEPT !.pc = "done", !.outcome = "thrown",
                 !.thrown = processedError(r.lastError)]

\* ------------------------------------------------- the steps of the facade
SetManager(m) ==
  /\ errorHistory' = m.errorHistory
  /\ recorded' = m.recorded
  /\ retryStrategies' = m.retryStrategies

\* One of createPayment, queryPaymentStatus, refund, refundResult,
\* cancelPayment, closePayment, processPayment is called: ensureInitialized,
\* then the provider call, wrapped in executeWithRetry or not.
FacadeCall(op, params) ==
  /\ run.pc \in {"idle", "done"}
  /\ LET r == [NoRun EXCEPT !.op = op, !.retrier = Facade(op).retrier,
                            !.errorType = Facade(op).errorType,
                            !.throwOriginal = Facade(op).throwOriginal,
                            !.params = params, !.attempt = 1]
     IN run' = IF initialized THEN invoke(withStrategy(r, retryStrategies))
               ELSE [r EXCEPT !.pc = "initializing"]
  /\ UNCHANGED <<errorHistory, recorded, retryStrategies, initialized, paymentEnabled>>
  /\ UNCHANGED <<dialogVars, factoryVars, serviceVars>>

\* init({force: true}) of ensureInitialized settles.  On success the
\* configuration is loaded (enabled is its paymentEnabled), the service is
\* created by the factory, and the facade goes on; on failure init records the
\* error, emits 'error' and throws it.
InitCompletes(ok, enabled) ==
  /\ run.pc = "initializing"
  /\ IF ok
     THEN /\ initialized' = TRUE
          /\ paymentEnabled' = enabled
          /\ SetFactory(createService(TheFactory, [isString |-> TRUE, value |-> "2"], TRUE))
          /\ services' = [services EXCEPT !.paymentService = created'.service]
          /\ run' = afterInit(emit(run, "initialized"), retryStrategies, enabled)
          /\ UNCHANGED <<errorHistory, recorded, retryStrategies>>
     ELSE LET error == CHOOSE e \in OtherFailures : e.text = "init" IN
          /\ SetManager(handleError(TheManager, error))
          /\ run' = initFailed([emit(run, "error") EXCEPT !.classified = @ + 1,
                                                           !.lastError = error])
          /\ UNCHANGED <<initialized, paymentEnabled, factoryVars, services>>
  /\ UNCHANGED <<dialogVars, provider, emitter>>

\* errorManager.executeWithRetry(operation, {errorType, throwOriginal}) called
\* with an operation of the caller's own
ExecuteWithRetry(errorType, throwOriginal) ==
  /\ run.pc \in {"idle", "done"}
  /\ run' = invoke(withStrategy([NoRun EXCEPT !.op = "operation", !.retrier = TRUE,
                                              !.errorType = errorType,
                                              !.throwOriginal = throwOriginal,
                                              !.attempt = 1],
                                retryStrategies))
  /\ UNCHANGED <<errorHistory, recorded, retryStrategies, initialized, paymentEnabled>>
  /\ UNCHANGED <<dialogVars, factoryVars, serviceVars>>

\* operation() resolves: executeWithRetry returns, the facade emits its
\* success event and returns
OperationReturns ==
  /\ run.pc = "calling"
  /\ paramsAccepted(run.op, run.params)
  /\ run' = [emit(run, Facade(run.op).successEvent) EXCEPT !.pc = "done", !.outcome = "returned"]
  /\ UNCHANGED <<errorHistory, recorded, retryStrategies, initialized, paymentEnabled>>
  /\ UNCHANGED <<dialogVars, factoryVars, serviceVars>>

\* operation() rejects with error: the catch block of executeWithRetry (or
\* of the facade, for a call that is not wrapped), up to the next await.
\* random is the Math.random() of the delay before the next attempt.
OperationFails(error, random) ==
  /\ run.pc = "calling"
  /\ error \in possibleFailures(run)
  /\ LET r == [run EXCEPT !.lastError = error]
         processed == processedError(error)
         classifiedRun == [r EXCEPT !.classified = @ + 1]
     IN IF ~r.retrier \/ r.throwOriginal
        THEN /\ run' = throw(r, error)
             /\ UNCHANGED <<errorHistory, recorded, retryStrategies>>
        ELSE /\ SetManager(handleError(TheManager, error))
             /\ IF ~r.hasStrategy
                THEN run' = throw(classifiedRun, processed)
                ELSE IF ~isRetryable(processed) \/ r.attempt > r.strategy.maxRetries
                THEN run' = throw(classifiedRun, processed)
                ELSE run' = [classifiedRun EXCEPT
                               !.pc = "delaying",
                               !.attempt = @ + 1,
                               !.waits = Append(@, calculateRetryDelay(
                                            retryStrategies, r.errorType, r.attempt, random))]
  /\ UNCHANGED <<initialized, paymentEnabled>>
  /\ UNCHANGED <<dialogVars, factoryVars, serviceVars>>

\* the delay before an attempt is over: operation() is called again
DelayElapsed ==
  /\ run.pc = "delaying"
  /\ run' = invoke(run)
  /\ UNCHANGED <<errorHistory, recorded, retryStrategies, initialized, paymentEnabled>>
  /\ UNCHANGED <<dialogVars, factoryVars, serviceVars>>

\* errorManager.handleError(error) called by a caller
HandleError(error) ==
  /\ run.pc \in {"idle", "done"}
  /\ SetManager(handleError(TheManager, error))
  /\ UNCHANGED <<initialized, paymentEnabled, run>>
  /\ UNCHANGED <<dialogVars, factoryVars, serviceVars>>

\* errorManager.registerRetryStrategy(errorType, strategy), between two calls
RegisterRetryStrategy(errorType, strategy) ==
  /\ run.pc \in {"idle", "done"}
  /\ retryStrategies' =
       [t \in DOMAIN retryStrategies \cup {errorType} |->
          IF t = errorType THEN strategy ELSE retryStrategies[t]]
  /\ UNCHANGED <<errorHistory, recorded, initialized, paymentEnabled, run>>
  /\ UNCHANGED <<dialogVars, factoryVars, serviceVars>>

\* The facade and its error manager: every operation of the facade with
\* every request data; a caller's own operations under the hints
\* NetworkError, SystemError and BusinessError; Math.random() near its two
\* ends (in thousandths); and the registration, for BusinessError, of the
\* strategy of three doubling retries or of one whose second delay reaches
\* maxDelay.
NextFacade ==
  \/ \E op \in FacadeOps, params \in Params :
       recorded < MaxErrors /\ FacadeCall(op, params)
  \/ \E ok \in BOOLEAN : InitCompletes(ok, "1")
  \/ \E errorType \in {"NetworkError", "SystemError", "BusinessError"},
        throwOriginal \in BOOLEAN :
       recorded < MaxErrors /\ ExecuteWithRetry(errorType, throwOriginal)
  \/ OperationReturns
  \/ \E error \in TransportFailures \cup GatewayRejections \cup OtherFailures
                    \cup {ParamFailure}, random \in {0, 999} :
       OperationFails(error, random)
  \/ DelayElapsed
  \/ \E error \in TransportFailures \cup {ParamFailure} :
       recorded < MaxErrors /\ HandleError(error)
  \/ \E strategy \in {Strategy(3, 1000, 10000, 2, FALSE),
                        Strategy(2, 1000, 1500, 2, FALSE)} :
       RegisterRetryStrategy("BusinessError", strategy)

SpecFacade == Init /\ [][NextFacade]_vars

\* isAggregatedPaymentEnabled(paymentData) is called
IsAggregatedPaymentEnabled(data) ==
  /\ run.pc \in {"idle", "done"}
  /\ LET r == [NoRun EXCEPT !.op = "isAggregatedPaymentEnabled", !.data = data]
     IN run' = IF initialized THEN aggregatedCheck(r, paymentEnabled)
               ELSE [r EXCEPT !.pc = "initializing"]
  /\ UNCHANGED <<errorHistory, recorded, retryStrategies, initialized, paymentEnabled>>
  /\ UNCHANGED <<dialogVars, factoryVars, serviceVars>>

\* the provider's predicate returns
PredicateSettles ==
  /\ run.pc = "predicate"
  /\ run' = [run EXCEPT !.pc = "done", !.outcome = "returned",
                        !.result = serviceIsAggregatedPaymentEnabled(run.data)]
  /\ UNCHANGED <<errorHistory, recorded, retryStrategies, initialized, paymentEnabled>>
  /\ UNCHANGED <<dialogVars, factoryVars, serviceVars>>

\* reloadConfig(): initialized is reset and init({force: true}) awaited
ReloadConfig ==
  /\ run.pc \in {"idle", "done"}
  /\ initialized' = FALSE
  /\ run' = [NoRun EXCEPT !.op = "reloadConfig", !.pc = "initializing"]
  /\ UNCHANGED <<errorHistory, recorded, retryStrategies, paymentEnabled>>
  /\ UNCHANGED <<dialogVars, factoryVars, serviceVars>>

\* The aggregated-payment question under every paymentData and both values of
\* the switch, with reloads of the configuration and failing initializations.
NextAggregated ==
  \/ \E data \in PaymentData : recorded < MaxErrors /\ IsAggregatedPaymentEnabled(data)
  \/ \E ok \in BOOLEAN, enabled \in {"1", "0"} : InitCompletes(ok, enabled)
  \/ PredicateSettles
  \/ recorded < MaxErrors /\ ReloadConfig

SpecAggregated == Init /\ [][NextAggregated]_vars

\* ------------------------------------------------- the steps of the factory
\* PaymentFactory.create(paymentType, config)
Create(paymentType, useCache) ==
  /\ instances < MaxInstances
  /\ SetFactory(createService(TheFactory, paymentType, useCache))
  /\ UNCHANGED <<errorHistory, recorded, retryStrategies, initialized, paymentEnabled, run>>
  /\ UNCHANGED <<dialogVars, serviceVars>>

\* clearServiceCache(paymentType)
ClearServiceCache(value) ==
  /\ value \in DOMAIN serviceCache
  /\ serviceCache' = [t \in DOMAIN serviceCache \ {value} |-> serviceCache[t]]
  /\ services' = destroy(services, {serviceCache[value]})
  /\ UNCHANGED <<instances, created>>
  /\ UNCHANGED <<errorHistory, recorded, retryStrategies, initialized, paymentEnabled, run>>
  /\ UNCHANGED <<dialogVars, provider, emitter>>

\* clearAllCache()
ClearAllCache ==
  /\ serviceCache # NoCache
  /\ serviceCache' = NoCache
  /\ services' = destroy(services, {serviceCache[t] : t \in DOMAIN serviceCache})
  /\ UNCHANGED <<instances, created>>
  /\ UNCHANGED <<errorHistory, recorded, retryStrategies, initialized, paymentEnabled, run>>
  /\ UNCHANGED <<dialogVars, provider, emitter>>

\* The factory under create calls with every kind of paymentType, with and
\* without useCache: false, and under the clearing of its cache.
NextFactory ==
  \/ \E paymentType \in PaymentTypeArgs, useCache \in BOOLEAN : Create(paymentType, useCache)
  \/ \E value \in {"2", "3"} : ClearServiceCache(value)
  \/ ClearAllCache

SpecFactory == Init /\ [][NextFactory]_vars

\* The error history over a long run: status queries through the facade whose
\* gateway request is aborted (retried, then given up) or succeeds, failed
\* initializations, and, once the facade is initialized, handleError called
\* directly.  Errors of other classes - a parameter error handed to
\* handleError, a rejection that names a permission - arrive once the history
\* is full.
NextHistory ==
  \/ recorded < HistoryRun
       /\ FacadeCall("queryPaymentStatus", [complete |-> TRUE, amount |-> 1])
  \/ \E ok \in BOOLEAN : InitCompletes(ok, "1")
  \/ OperationReturns
  \/ OperationFails(Error(FALSE, "", "AbortError", 0, {}, "transport"), 0)
  \/ Len(errorHistory) = maxHistorySize
       /\ OperationFails(Error(FALSE, "", "Error", 0, {"permission"}, "gateway"), 0)
  \/ DelayElapsed
  \/ recorded < HistoryRun /\ initialized
       /\ HandleError(Error(FALSE, "", "AbortError", 0, {}, "transport"))
  \/ recorded < HistoryRun /\ initialized /\ Len(errorHistory) = maxHistorySize
       /\ HandleError(ParamFailure)

SpecHistory == Init /\ [][NextHistory]_vars

\* ------------------------------------------------- the steps of the provider
\* createPayment(paymentInfo) of a session's init-dialog, refresh-qrcode or
\* create-payment handler, up to await createPayOrderApi
CreatePayment(d) ==
  /\ d \notin provider.creating
  /\ provider.issued + Cardinality(provider.creating) < MaxOrders
  /\ provider' = [provider EXCEPT !.creating = @ \cup {d}]
  /\ UNCHANGED <<dialogVars, managerVars, emitter, services>>

\* the gateway answers a createPayment: with a new order number, which is
\* stored in this.payOrderNo; with a success code but no order number, which
\* stores '' and throws; or with a rejection or not at all, which throws
CreateAnswer(d, answer) ==
  /\ d \in provider.creating
  /\ provider' =
       CASE answer = "order" ->
              [provider EXCEPT !.creating = @ \ {d},
                               !.issued = @ + 1,
                               !.payOrderNo = provider.issued + 1,
                               !.orders[d] = provider.issued + 1,
                               !.revertHandler = d]
         [] answer = "noOrder" -> [provider EXCEPT !.creating = @ \ {d}, !.payOrderNo = 0]
         [] OTHER -> [provider EXCEPT !.creating = @ \ {d}]
  /\ UNCHANGED <<dialogVars, managerVars, emitter, services>>

\* cancelPayment(params) is called for a session
CancelPayment(d, params) ==
  /\ provider.cancel.pc \in {"idle", "done"}
  /\ provider' = [provider EXCEPT !.cancel = cancelPayment(provider, d, params)]
  /\ UNCHANGED <<dialogVars, managerVars, emitter, services>>

\* the gateway answers the request the cancel awaits
CancelAnswer(ok, status) ==
  /\ provider.cancel.pc \notin {"idle", "done"}
  /\ provider.cancel.pc = "query" \/ status = NoStatus
  /\ provider' = [provider EXCEPT !.cancel = cancelResumes(@, ok, status)]
  /\ UNCHANGED <<dialogVars, managerVars, emitter, services>>

\* processPayment for session d returns the result of its dialog with
\* revertHandler: this.revertHandler (lines 70-74)
ProcessPaymentReturns(d) ==
  /\ d \notin provider.creating
  /\ provider' = [provider EXCEPT !.result = [session |-> d,
                                              revertHandler |-> provider.revertHandler]]
  /\ UNCHANGED <<dialogVars, managerVars, emitter, services>>

\* One provider instance serving the sessions: their createPayment calls
\* and a cancelPayment with every request data, the status query of which is
\* answered with every status, with none, or fails.
NextProvider ==
  \/ \E d \in DialogIds : CreatePayment(d)
  \/ \E d \in DialogIds, answer \in {"order", "noOrder", "failed"} : CreateAnswer(d, answer)
  \/ \E d \in DialogIds, params \in Params : CancelPayment(d, params)
  \/ \E ok \in BOOLEAN, status \in PAYMENT_STATUS \cup {NoStatus} :
       CancelAnswer(ok, status)
  \/ \E d \in DialogIds : ProcessPaymentReturns(d)

SpecProvider == Init /\ [][NextProvider]_vars

\* ----------------------------------------------- the steps of the emitter
\* on(event, callback) by a caller
On(event, kind) ==
  /\ Len(emitter.events[event]) < MaxRegistered
  /\ emitter' = on(emitter, event, Listener(kind, 0))
  /\ UNCHANGED <<dialogVars, managerVars, provider, services>>

\* once(event, callback) by a caller
Once(event, kind) ==
  /\ Len(emitter.events[event]) < MaxRegistered
  /\ emitter.wrappers < MaxWrappers
  /\ emitter' = once(emitter, event, kind)
  /\ UNCHANGED <<dialogVars, managerVars, provider, services>>

\* off(event, callback) by a caller, or the function on() returned
Off(event, listener) ==
  /\ \E i \in 1..Len(emitter.events[event]) : emitter.events[event][i] = listener
  /\ emitter' = off(emitter, event, listener)
  /\ UNCHANGED <<dialogVars, managerVars, provider, services>>

\* emit(event, payload) by a caller
Emit(event) ==
  /\ emitter.emits < MaxEmits
  /\ emitter' = emit1(emitter, event)
  /\ UNCHANGED <<dialogVars, managerVars, provider, services>>

\* The emitter under registrations of every kind of callback on the ordinary
\* event, of returning and throwing callbacks on 'error', removals, and
\* emits of both events.
NextEmitter ==
  \/ \E kind \in {"plain", "throws", "offSelf", "offOther", "onNew", "reemit"} :
       On("pay", kind)
  \/ \E kind \in {"plain", "throws"} : On("error", kind)
  \/ \E event \in EventNames, kind \in {"plain", "throws", "reemit"} :
       (event = "pay" \/ kind # "reemit") /\ Once(event, kind)
  \/ \E event \in EventNames, kind \in {"plain", "throws"} : Off(event, Listener(kind, 0))
  \/ \E event \in EventNames : Emit(event)

SpecEmitter == Init /\ [][NextEmitter]_vars

\* ------------------------------------- the provider's handlers of a dialog
\* queryPaymentStatus of the dialog (query button or poller): unless
\* isQuerying, it sets the flag and emits query-status
EmitQueryStatus ==
  /\ ~provider.isQuerying
  /\ Len(provider.handlers) < MaxHandlers
  /\ provider' = [handlerCalled(provider, "query") EXCEPT !.isQuerying = TRUE]
  /\ UNCHANGED <<dialogVars, managerVars, emitter, services>>

\* the timeout of queryPaymentStatus, 500 ms after the emission
QuerySettled ==
  /\ provider.isQuerying
  /\ provider' = [provider EXCEPT !.isQuerying = FALSE]
  /\ UNCHANGED <<dialogVars, managerVars, emitter, services>>

\* handleCancelPayment: the cancel button, offered and not loading, emits
\* cancel-payment
EmitCancelPayment ==
  /\ "cancel" \in getActionsForStatus(provider.currentStatus, ACTIVE)
  /\ \A i \in 1..Len(provider.handlers) : provider.handlers[i].kind # "cancel"
  /\ Len(provider.handlers) < MaxHandlers
  /\ provider' = handlerCalled(provider, "cancel")
  /\ UNCHANGED <<dialogVars, managerVars, emitter, services>>

\* the gateway call of a waiting handler completes, in any order
HandlerResumes(i, answer) ==
  /\ i \in 1..Len(provider.handlers)
  /\ provider' = handlerResumes(provider, i, answer)
  /\ UNCHANGED <<dialogVars, managerVars, emitter, services>>

\* One active dialog and the provider's two handlers that set its status,
\* with the gateway calls completing in any order.
NextHandlers ==
  \/ EmitQueryStatus
  \/ QuerySettled
  \/ EmitCancelPayment
  \/ \E i \in 1..MaxHandlers, answer \in GatewayStatuses \cup {NoStatus, QueryError} :
       HandlerResumes(i, answer)

SpecHandlers == Init /\ [][NextHandlers]_vars

\* Two payments with different keys on one provider: call c pays key c, with
\* valid or invalid payment data; each session can be initialised, closed by
\* its controller or through closeDialog, and torn down.
NextKeys ==
  \/ \E c \in Calls, mode \in SCAN_MODES, valid \in BOOLEAN :
       c \in PaymentKeys /\ ProcessPayment(c, c, mode, valid)
  \/ \E c \in Calls : OpenResume(c)
  \/ \E c \in Calls : AfterOpen(c)
  \/ \E c \in Calls : BindEvents(c)
  \/ \E c \in Calls : ResultDelivered(c)
  \/ \E d \in DialogIds, r \in CloseResults : ControllerClose(d, r)
  \/ \E d \in DialogIds, r \in CloseResults : CloseDialog(d, r)
  \/ \E d \in DialogIds : DestroyTimerFire(d)
  \/ \E d \in DialogIds : InitTimeoutFire(d)
  \/ Advance
  \/ \E d \in DialogIds, ok \in BOOLEAN : InitResponse(d, ok)

SpecKeys == Init /\ [][NextKeys]_vars

\* One session whose status queries are answered with every status the
\* gateway has for an order, those of a refunded order included: the poller
\* and the query button ask, the user can go back, retry or abandon.
NextStatuses ==
  \/ \E c \in Calls, mode \in SCAN_MODES :
       nextId = 1 /\ ProcessPayment(c, 1, mode, TRUE)
  \/ \E c \in Calls : OpenResume(c)
  \/ \E c \in Calls : AfterOpen(c)
  \/ \E c \in Calls : BindEvents(c)
  \/ \E c \in Calls : ResultDelivered(c)
  \/ DestroyTimerFire(1)
  \/ TimerTick(1)
  \/ PollFire(1)
  \/ InitTimeoutFire(1)
  \/ QueryTimeoutFire(1)
  \/ Advance
  \/ \E r \in GatewayStatuses \cup RefundStatuses : QueryResponse(1, r)
  \/ \E ok \in BOOLEAN : InitResponse(1, ok)
  \/ \E ok \in BOOLEAN : RetryResponse(1, ok)
  \/ AbandonResponse(1)
  \/ \E ok \in BOOLEAN : CreateResponse(1, ok)
  \/ ClickQuery(1)
  \/ ClickRetry(1)
  \/ \E confirmed \in BOOLEAN : ClickAbandon(1, confirmed)
  \/ ClickBack(1)
  \/ ScanCode(1)

SpecStatuses == Init /\ [][NextStatuses]_vars

\* PaymentManager.destroy(): the error manager is emptied, the provider the
\* manager holds is destroyed, and the manager's fields are reset.  The
\* factory's cache is not told.
Destroy ==
  /\ run.pc \in {"idle", "done"}
  /\ errorHistory' = <<>>
  /\ retryStrategies' = [errorType \in {} |-> Strategy(0, 0, 0, 0, FALSE)]
  /\ initialized' = FALSE
  /\ paymentEnabled' = "none"
  /\ services' = [destroy(services, {services.paymentService}) EXCEPT !.paymentService = 0]
  /\ UNCHANGED <<recorded, run, factoryVars>>
  /\ UNCHANGED <<dialogVars, provider, emitter>>

\* The manager through its life: operations that initialize it on demand,
\* reloads of the configuration, failing initializations, and destroy.
NextLifecycle ==
  \/ \E data \in PaymentData : recorded < MaxErrors /\ IsAggregatedPaymentEnabled(data)
  \/ \E ok \in BOOLEAN, enabled \in {"1", "0"} : InitCompletes(ok, enabled)
  \/ PredicateSettles
  \/ recorded < MaxErrors /\ ReloadConfig
  \/ Destroy

SpecLifecycle == Init /\ [][NextLifecycle]_vars

\* ------------------------------------------------------------ properties
\* A session that exists and whose teardown has not started
Active(d) == inst[d].created /\ ~TeardownStarted(World, d)

\* C1: at most one dialog instance per payment key is created and live at any
\* time, also when a second openPaymentDialog for the key starts before the
\* first has stored its controller.
C1_OneSessionPerKey ==
  \A d1, d2 \in DialogIds :
    (Active(d1) /\ Active(d2) /\ inst[d1].key = inst[d2].key) => d1 = d2

\* A call to which openPaymentDialog has returned its controller
Returned(c) == calls[c].pc \in {"opened", "binding", "waiting"}

\* C2: while the controller that openPaymentDialog returned for a key is
\* unresolved, the dedup index holds that controller for the key, so that a
\* second openPaymentDialog for the key returns the identical controller and
\* creates no instance; and a resolved controller is not in the index, so
\* that the next call creates a fresh one.
C2_SameControllerWhileUnresolved ==
  /\ \A c \in Calls :
       (Returned(c) /\ ~ctrl[calls[c].d].settled)
         => dialogPromises[calls[c].key] = calls[c].d
  /\ \A k \in Keys :
       dialogPromises[k] # 0 => ~ctrl[dialogPromises[k]].settled

\* The payload with which the completion path `by` resolves the future
PayloadOf(by) ==
  IF by = "final-status" THEN {SUCCESS, ABANDONED}
  ELSE IF by = "close" THEN {"cancelled", "custom"}
  ELSE {}

\* C3: the future of a controller is resolved at most once, by one of the two
\* completion paths and with the payload of that path, which the resolved flag
\* records; once it is resolved no step changes the controller, and an entry
\* leaves the dedup index only in a step that resolves a future of its key
\* for the first time, or when closeAllDialogs empties both maps.
C3_ResolvedOnce ==
  /\ [](\A d \in DialogIds :
          /\ ctrl[d].resolveCalls <= 1
          /\ ctrl[d].settled <=> ctrl[d].isResolved
          /\ ctrl[d].settled <=> ctrl[d].resolveCalls = 1
          /\ ctrl[d].settled => ctrl[d].value \in PayloadOf(ctrl[d].by)
          /\ ~ctrl[d].settled => ctrl[d].value = "pending" /\ ctrl[d].by = "none")
  /\ [][/\ \A d \in DialogIds : ctrl[d].settled => ctrl'[d] = ctrl[d]
        /\ \A k \in Keys :
             (dialogPromises[k] # 0 /\ dialogPromises'[k] = 0)
               => \/ \E d \in DialogIds :
                       inst[d].key = k /\ ~ctrl[d].settled /\ ctrl'[d].settled
                  \/ /\ activeDialogs' = {}
                     /\ \A j \in Keys : dialogPromises'[j] = 0]_vars

\* A future resolved by close whose session then reached Success and ran its
\* handleFinalStatus: the second completion path fired after the first.
C3_Witness ==
  \E d \in DialogIds :
    /\ ctrl[d].settled /\ ctrl[d].by = "close"
    /\ inst[d].currentStatus = SUCCESS /\ inst[d].closeTimeout # 0

\* C4: a resolved controller is not in the dedup index, from the step that
\* resolves it on; that step leaves the instance in the document and alive and
\* schedules its removal and destruction 300 ms later, and the instance is
\* destroyed only when that delay has run out; a call that opens a dialog is
\* never handed a resolved controller; and the step that destroys the old
\* instance changes no other session, no controller and neither map.
C4_GraceTeardown ==
  /\ [](\A d \in DialogIds, k \in Keys : ctrl[d].settled => dialogPromises[k] # d)
  /\ [][\A d \in DialogIds :
          /\ (~ctrl[d].settled /\ ctrl'[d].settled)
               => /\ ~inst'[d].vmDestroyed /\ inst'[d].inDom
                  /\ destroyTimer'[d] = ANIMATION_DELAY
          /\ ((~inst[d].vmDestroyed /\ inst'[d].vmDestroyed)
                \/ (inst[d].inDom /\ ~inst'[d].inDom))
               => /\ destroyTimer[d] = 0
                  /\ \A e \in DialogIds \ {d} : inst'[e] = inst[e]
                  /\ ctrl' = ctrl
                  /\ dialogPromises' = dialogPromises
                  /\ activeDialogs' = activeDialogs]_vars
  /\ [][\A c \in Calls :
          (calls[c].pc = "idle" /\ calls'[c].pc = "opened")
            => ~ctrl[calls'[c].d].settled]_vars

\* The old session of a key has been destroyed after its grace delay, and a
\* session of the same key that was opened less than 300 ms earlier, during
\* that delay, is active and holds the key in the dedup index.
C4_Witness ==
  \E d1, d2 \in DialogIds :
    /\ d1 # d2 /\ inst[d1].key = inst[d2].key
    /\ ctrl[d1].settled /\ inst[d1].vmDestroyed
    /\ Active(d2) /\ ~ctrl[d2].settled /\ dialogPromises[inst[d2].key] = d2
    /\ \E t \in inst[d2].live :
         t.kind = "poll" /\ t.rem > pollingInterval - ANIMATION_DELAY

\* C5: closeAllDialogs resolves the future of every controller that is still
\* unresolved with the cancelled result, and leaves the dedup index and the
\* active-dialog map empty.
C5_CloseAllResolvesAll ==
  [][CloseAllDialogs =>
       /\ \A d \in DialogIds :
            (ctrl[d].exists /\ ~ctrl[d].settled)
              => (ctrl'[d].settled /\ ctrl'[d].value = "cancelled")
       /\ activeDialogs' = {}
       /\ \A k \in Keys : dialogPromises'[k] = 0]_vars

\* The field of the instance that holds the handle of a timer of this kind
HandleField(kind) ==
  CASE kind = "timer" -> "timer"
    [] kind = "poll" -> "pollingTimer"
    [] kind = "init" -> "initTimeout"
    [] kind = "query" -> "queryTimeout"
    [] kind = "close" -> "closeTimeout"

\* C6: however often cleanup() and _cleanupDialog run for a session, no timer
\* is cleared a second time (every clearInterval/clearTimeout is given the
\* handle of a live timer), every live timer is held by the field of its
\* kind, the delayed destruction is scheduled at most once, and a destroyed
\* instance has no live timer and only null handles.
C6_TeardownIdempotent ==
  \A d \in DialogIds :
    LET s == inst[d] IN
    /\ s.staleClears = 0
    /\ s.destroyScheduled <= 1
    /\ \A t \in s.live : s[HandleField(t.kind)] = t.h
    /\ s.vmDestroyed =>
         /\ s.live = {}
         /\ s.timer = 0 /\ s.pollingTimer = 0 /\ s.initTimeout = 0
         /\ s.queryTimeout = 0 /\ s.closeTimeout = 0
         /\ destroyTimer[d] = -1

\* A session in Pending that the coordinator cleaned up after an explicit
\* close and then destroyed: _cleanupDialog and cleanup() have both run.
C6_Witness ==
  \E d \in DialogIds :
    /\ inst[d].vmDestroyed /\ inst[d].destroyScheduled = 1
    /\ ctrl[d].by = "close" /\ inst[d].currentStatus = PENDING

\* The step completes a gateway call that a handler of session d awaited
ResponseStep(d) ==
  \E kind \in DOMAIN NoRequests : net'[d][kind] < net[d][kind]

\* C7: once the controller of a session has resolved and its teardown has
\* started, the late result of a gateway call changes neither the status of
\* the session nor starts a countdown interval or a poller.
C7_LateResultDiscarded ==
  [][\A d \in DialogIds :
       (ctrl[d].settled /\ TeardownStarted(World, d) /\ ResponseStep(d))
         => /\ inst'[d].currentStatus = inst[d].currentStatus
            /\ \A t \in inst'[d].live :
                 t.kind \in {"timer", "poll"} => t \in inst[d].live]_vars

\* C8: a query-status event is emitted to the provider only when no status
\* query of the session is in flight, and the flag isQuerying is not released
\* while a query is in flight.
C8_OneQueryInFlight ==
  [][\A d \in DialogIds :
       /\ net'[d].query > net[d].query => net[d].query = 0
       /\ (inst[d].isQuerying /\ ~inst'[d].isQuerying) => net[d].query = 0]_vars

Live(s, kind) == {t \in s.live : t.kind = kind}

\* C9: a session never has more than one live countdown interval or more
\* than one live poller, and the step in which an active-mode session whose
\* teardown has not started enters Processing leaves it with exactly one of
\* each.
C9_OneTimerOnePoller ==
  /\ [](\A d \in DialogIds :
          /\ Cardinality(Live(inst[d], "timer")) <= 1
          /\ Cardinality(Live(inst[d], "poll")) <= 1)
  /\ [][\A d \in DialogIds :
          (/\ Active(d) /\ inst[d].watching
           /\ inst[d].currentStatus # PROCESSING
           /\ inst'[d].currentStatus = PROCESSING
           /\ isActiveMode(inst'[d]))
            => /\ Cardinality(Live(inst'[d], "timer")) = 1
               /\ Cardinality(Live(inst'[d], "poll")) = 1]_vars

\* C10: for an active-mode session that went through ActiveInit, Pending and
\* Success: the step into Success emits final-status, which resolves the
\* controller listening for it; the session is not destroyed before its
\* automatic close has fired, once; and while the status is Success no
\* query-status reaches the provider.
C10_SuccessSequence ==
  /\ [](\A d \in DialogIds :
          (inst[d].path = 3 /\ ctrl[d].by = "final-status")
            => /\ inst[d].autoClosed <= 1
               /\ inst[d].vmDestroyed => inst[d].autoClosed = 1)
  /\ [][\A d \in DialogIds :
          /\ (inst[d].path = 2 /\ inst'[d].path = 3 /\ inst[d].dmFinal /\ inst[d].watching)
               => (ctrl'[d].by = "final-status" /\ ctrl'[d].value = SUCCESS)
          /\ (inst[d].path = 3 /\ inst[d].currentStatus = SUCCESS)
               => net'[d].query <= net[d].query]_vars

\* C11: Success and Abandoned are terminal: once the status of a session is
\* one of them, no step changes it to a status that is not terminal.
C11_TerminalStays ==
  [][\A d \in DialogIds :
       isFinalStatus(inst[d].currentStatus) => isFinalStatus(inst'[d].currentStatus)]_vars

\* The delays executeWithRetry takes under strategy when every attempt fails
\* and no jitter is drawn: min(b * f^(k-1), M) before attempt k + 1.
Schedule(strategy) ==
  [k \in 1..strategy.maxRetries |->
     Min({strategy.baseDelay * Pow(strategy.backoffFactor, k - 1), strategy.maxDelay})]

\* a call of executeWithRetry has ended by throwing
Thrown == run.pc = "done" /\ run.outcome = "thrown" /\ run.retrier /\ run.invoked > 0

\* C12: executeWithRetry under a strategy without jitter, on an operation
\* that failed every time with an error classified as retryable, has called the
\* operation maxRetries + 1 times, has waited min(b * f^(k-1), M) before
\* attempt k + 1, and throws the classification of the last error.
C12_RetrySchedule ==
  (Thrown /\ ~run.throwOriginal /\ run.hasStrategy /\ ~run.strategy.jitter
     /\ isRetryable(run.thrown))
  => /\ run.invoked = run.strategy.maxRetries + 1
     /\ run.waits = Schedule(run.strategy)
     /\ run.thrown = processedError(run.lastError)
     /\ run.classified = run.invoked

\* three doubling retries from 1000 ms were exhausted: 1000, 2000, 4000
C12_Witness ==
  /\ Thrown /\ ~run.throwOriginal /\ isRetryable(run.thrown)
  /\ run.hasStrategy /\ run.strategy = Strategy(3, 1000, 10000, 2, FALSE)
  /\ run.invoked = 4
  /\ run.waits = <<1000, 2000, 4000>>

\* C13: with throwOriginal = true the first failure of the operation ends the
\* call: the error thrown is the error the operation raised, the operation
\* was called once, no delay was taken, nothing was classified and the error
\* history is as it was, whatever the errorType hint.
C13_ThrowOriginal ==
  [][(run.pc = "calling" /\ run.retrier /\ run.throwOriginal /\ run' # run)
       => \/ run'.pc = "done" /\ run'.outcome = "returned"
          \/ /\ run'.pc = "done" /\ run'.outcome = "thrown"
             /\ run'.thrown = run'.lastError
             /\ run'.invoked = 1 /\ run'.waits = <<>> /\ run'.classified = 0
             /\ errorHistory' = errorHistory /\ recorded' = recorded]_vars

\* a call with throwOriginal under a hint that has a strategy has thrown an
\* error that the manager would have classified as retryable
C13_Witness ==
  /\ Thrown /\ run.throwOriginal /\ run.hasStrategy
  /\ ~run.lastError.isPaymentError /\ isRetryable(processedError(run.lastError))
  /\ run.thrown = run.lastError /\ run.invoked = 1

\* C14: a facade operation whose provider call met a gateway response with a
\* code other than success fails at that response, with a business error
\* that carries the message of the rejection: the provider operation is not
\* called again.
C14_BusinessRejection ==
  [][(run.pc = "calling" /\ run.op \in FacadeOps /\ run' # run
        /\ run'.outcome # "returned" /\ run'.lastError \in GatewayRejections)
       => /\ run'.pc = "done" /\ run'.outcome = "thrown"
          /\ run'.thrown.code = "BUSINESS_ERROR"
          /\ run'.thrown.text = run'.lastError.text
          /\ run'.invoked = run.invoked]_vars

\* C15: a transport failure inside createPayment, queryPaymentStatus, refund
\* or refundResult of the facade is classified as a network error, and the
\* call goes on to a further attempt after a delay between half and the whole
\* of min(b * f^(k-1), M) of the NetworkError strategy, until that strategy's
\* maxRetries is used up; only then is the network error thrown.
C15_TransportRetried ==
  [][(run.pc = "calling" /\ run' # run /\ run'.outcome # "returned"
        /\ run.op \in {"createPayment", "queryPaymentStatus", "refund", "refundResult"}
        /\ run'.lastError \in TransportFailures)
       => LET policy == retryStrategies["NetworkError"]
              whole == Min({policy.baseDelay * Pow(policy.backoffFactor, run.attempt - 1),
                            policy.maxDelay})
          IN /\ Len(errorHistory') > 0
             /\ errorHistory'[Len(errorHistory')].code = "NETWORK_ERROR"
             /\ IF run.attempt <= policy.maxRetries
                THEN /\ run'.pc = "delaying"
                     /\ Len(run'.waits) = run.attempt
                     /\ run'.waits[run.attempt] \in (whole \div 2)..whole
                ELSE /\ run'.pc = "done" /\ run'.outcome = "thrown"
                     /\ run'.thrown.code = "NETWORK_ERROR"]_vars

\* C16: a payment or a refund request that lacks a required field or whose
\* amount is not positive sends no gateway request and opens no dialog; the
\* provider operation is called once and the call ends with a parameter
\* error.
C16_InvalidRequest ==
  (run.op \in {"processPayment", "refund", "refundResult"} /\ run.invoked > 0
     /\ (~run.params.complete \/ run.params.amount <= 0))
  => /\ run.requests = 0 /\ ~run.dialog
     /\ run.invoked = 1
     /\ run.pc = "done" => (run.outcome = "thrown" /\ run.thrown.code = "PARAM_ERROR")

\* the history holds the last records made, oldest first, at most
\* maxHistorySize of them
HistoryShape ==
  /\ Len(errorHistory) <= maxHistorySize
  /\ Len(errorHistory) = Min({recorded, maxHistorySize})
  /\ \A i \in 1..Len(errorHistory) :
       errorHistory[i].id = recorded - Len(errorHistory) + i

\* C17: the error history never holds more than maxHistorySize records; they
\* are the most recent ones in the order of arrival; and every failure that
\* is classified - retried, final or not retryable - adds exactly one record,
\* placed last, while no other step changes the history.
C17_BoundedHistory ==
  [][/\ HistoryShape'
     /\ recorded' \in {recorded, recorded + 1}
     /\ recorded' = recorded => errorHistory' = errorHistory
     /\ recorded' = recorded + 1 =>
          errorHistory'[Len(errorHistory')].id = recorded'
     /\ (run.pc \in {"calling", "initializing"} /\ run'.classified = run.classified + 1)
          => /\ recorded' = recorded + 1
             /\ errorHistory'[Len(errorHistory')].code
                  = processedError(run'.lastError).code
     /\ (run.pc \in {"calling", "initializing"} /\ run'.classified = run.classified)
          => recorded' = recorded]_vars

\* two records were evicted from a full history, which holds a record of a
\* parameter error among those of network errors
C17_Witness ==
  /\ recorded = maxHistorySize + 2
  /\ Len(errorHistory) = maxHistorySize
  /\ errorHistory[1].id = 3
  /\ \E i, j \in 1..Len(errorHistory) :
       errorHistory[i].code = "PARAM_ERROR" /\ errorHistory[j].code = "NETWORK_ERROR"

C19_FacadePipeline ==
  (run.op \in FacadeOps \ {"processPayment"} /\ run.invoked > 0)
  => /\ initialized
     /\ run.retrier
     /\ run.pc = "done" =>
          \E i \in 1..Len(run.events) : run.events[i] \notin {"initialized", "error"}

\* what a create call must have done: an error and an untouched cache for a
\* paymentType that is empty, not a string or not recognized; the cached
\* instance, left in place, when there is one and useCache is not false; a
\* new instance otherwise, stored only if useCache is not false
CreatedAsClaimed ==
  LET value == created'.paymentType.value
      recognized == created'.paymentType.isString /\ getServiceClassByType(value)
      cached == value \in DOMAIN serviceCache
  IN IF ~recognized
     THEN created'.outcome = "error" /\ serviceCache' = serviceCache
     ELSE /\ created'.outcome = "returned"
          /\ IF created'.useCache
             THEN /\ created'.service = serviceCache'[value]
                  /\ cached => (serviceCache' = serviceCache)
                  /\ ~cached => (created'.service = instances + 1)
             ELSE /\ serviceCache' = serviceCache
                  /\ created'.service = instances + 1
                  /\ \A t \in DOMAIN serviceCache : serviceCache[t] # created'.service

CancelApis == [i \in 1..Len(provider.cancel.requests) |-> provider.cancel.requests[i].api]

\* C21: the provider's cancelPayment sends the status query first; once the
\* query is answered, a paid order (Success) is followed by the refund - the
\* refund request, then at most the query of its result - and by no close, a
\* Pending or Processing order by exactly one close and no refund, and any
\* other or missing status by no further gateway request.
C21_CancelFollowUp ==
  LET c == provider.cancel
      answered == c.pc \notin {"idle", "query"} /\ ~(c.outcome = "thrown" /\ Len(c.requests) = 1
                                                       /\ c.status = NoStatus)
  IN /\ c.pc # "idle" => (Len(CancelApis) >= 1 /\ CancelApis[1] = "query")
     /\ c.pc = "query" => CancelApis = <<"query">>
     /\ (answered /\ c.status = SUCCESS) =>
          CancelApis \in {<<"query", "refund">>, <<"query", "refund", "refundResult">>}
     /\ (answered /\ c.status \in {PENDING, PROCESSING}) => CancelApis = <<"query", "close">>
     /\ (answered /\ c.status \notin {SUCCESS, PENDING, PROCESSING}) => CancelApis = <<"query">>

\* C26: every gateway request - status query, refund, close - sent for a
\* session that has an order of its own carries the order number that
\* session's createPayment was given, whatever other sessions of the same
\* provider instance have created since.
C26_OwnOrderNumber ==
  LET c == provider.cancel IN
  c.own # 0 => \A i \in 1..Len(c.requests) : c.requests[i].payOrderNo = c.own

\* the listeners the last emit() of a caller called itself, in order
CalledByEmit ==
  LET own == SelectSeq(emitter.log, LAMBDA r : r.depth = 1)
  IN [i \in 1..Len(own) |-> own[i].listener]

\* the calls of the last emit(), nested ones included, that threw
ThrowingCalls == {i \in 1..Len(emitter.log) : emitter.log[i].listener.kind = "throws"}

\* C22: an emit() calls exactly the listeners registered when it was called,
\* each once and in the order of registration, whatever the listeners
\* unsubscribe or register meanwhile, and returns true exactly if there was
\* a listener.
C22_EmitSnapshot ==
  emitter.result # "none" =>
    /\ CalledByEmit = emitter.snapshot
    /\ emitter.result = (IF emitter.snapshot # <<>> THEN "true" ELSE "false")

\* an emit() that returns has called the listeners of its copy
ReturningEmitKeepsSnapshot ==
  emitter.result \notin {"none", "raised"} =>
    /\ CalledByEmit = emitter.snapshot
    /\ emitter.result = (IF emitter.snapshot # <<>> THEN "true" ELSE "false")

\* C23: when a listener throws during an emit(), nothing reaches the caller
\* of emit(), every listener of the copy is still called, and each failure
\* is emitted once on 'error' with the name of the event it came from.
C23_ThrowContained ==
  (emitter.result # "none" /\ ThrowingCalls # {}) =>
    /\ emitter.result # "raised"
    /\ CalledByEmit = emitter.snapshot
    /\ Len(emitter.republished) = Cardinality(ThrowingCalls)
    /\ \A i \in 1..Len(emitter.log) :
         emitter.log[i].depth > 1 /\ emitter.log[i].event = "error"
           => emitter.log[i].arg \in EventNames

\* C24: a callback registered with once() is called at most once, whatever
\* is emitted and whatever it does, and is not registered any more after
\* its first call.
C24_OnceAtMostOnce ==
  \A w \in 1..MaxWrappers :
    /\ emitter.invoked[w] <= 1
    /\ emitter.invoked[w] >= 1 =>
         \A e \in EventNames : \A i \in 1..Len(emitter.events[e]) :
           emitter.events[e][i].wrapper # w

\* the actions a status offers in a scan mode: the handler for the key
\* 'close', whose handler differs from status to status, and the key for the
\* others
ActionsOffered(status, mode) ==
  {IF key = Close THEN CloseHandler(status) ELSE key :
     key \in getActionsForStatus(status, mode)}

\* the table of the actions per status and scan mode
ClaimedActions(status, mode) ==
  CASE status = SUCCESS -> {}
    [] status \in {FAILED, TIMEOUT} -> {"handlePendingStatus"}
    [] status \in {CANCELLED, CLOSED} -> {"handleAbandonPayment", "retry"}
    [] status \in {PROCESSING, PENDING} ->
         IF mode = ACTIVE THEN {"cancel", "refresh", "query"} ELSE {"cancel", "query"}

\* C30: the actions offered are a function of status and scan mode alone,
\* namely: none in Success; in Failed and Timeout only the return to Waiting;
\* in Cancelled and Closed abandon and retry; in Processing and Pending
\* cancel, refresh and query in active mode, cancel and query in passive
\* mode - for every status and mode, and for the session on the screen.
C30_ActionTable ==
  LET Rows == {SUCCESS, FAILED, TIMEOUT, CANCELLED, CLOSED, PROCESSING, PENDING} IN
  /\ \A status \in Rows, mode \in SCAN_MODES :
       ActionsOffered(status, mode) = ClaimedActions(status, mode)
  /\ \A d \in DialogIds :
       (inst[d].created /\ inst[d].currentStatus \in Rows) =>
         {key \in {Close, "cancel", "refresh", "query", "retry"} :
            key \in getActionsForStatus(inst[d].currentStatus, inst[d].scanMode)}
           = {IF a \in {"handlePendingStatus", "handleAbandonPayment"} THEN Close ELSE a :
                a \in ClaimedActions(inst[d].currentStatus, inst[d].scanMode)}

\* a passive session in Processing offers cancel on the screen
C30_Witness ==
  \E d \in DialogIds :
    /\ inst[d].currentStatus = PROCESSING /\ ~isActiveMode(inst[d])
    /\ Offered(inst[d], "cancel") /\ Offered(inst[d], "query")

\* a step that changes the status of session d, whose teardown had not
\* started and which is not destroyed by the step
StatusChange(d) ==
  /\ Active(d) /\ inst[d].watching
  /\ inst'[d].created /\ ~inst'[d].isDestroyed
  /\ inst'[d].currentStatus # inst[d].currentStatus

Running(s, kind) == Cardinality(Live(s, kind)) = 1

\* C28: in active scan mode, a status change of a live session into
\* ActiveInit, Pending or Processing leaves a countdown interval and a poller
\* running; a change into any other status leaves both stopped and the
\* remaining time at the configured countdown.
C28_ActiveModeTimers ==
  [][\A d \in DialogIds :
       (StatusChange(d) /\ isActiveMode(inst'[d])) =>
         IF inst'[d].currentStatus \in {ACTIVE_INIT, PENDING, PROCESSING}
         THEN Running(inst'[d], "timer") /\ Running(inst'[d], "poll")
         ELSE /\ Live(inst'[d], "timer") = {} /\ Live(inst'[d], "poll") = {}
              /\ inst'[d].timeLeft = Countdown]_vars

C27_CallbackOrder ==
  [][\A i \in 1..Len(provider.handlers) :
       (/\ provider.handlers[i].late
        /\ \E answer \in GatewayStatuses \cup {NoStatus, QueryError} :
             provider' = handlerResumes(provider, i, answer))
         => provider'.currentStatus = provider.currentStatus]_vars

\* ------------------------------------------------ sessions of different keys
\* a session that is open and whose future is still pending
SessionLive(d) ==
  inst[d].created /\ d \in activeDialogs /\ ctrl[d].exists /\ ~ctrl[d].settled

\* a step taken for a payment whose key is not the one of session d: a call
\* that fails or opens, its continuations, the resolution and the teardown of
\* its session
StepOfOtherKey(d) ==
  \/ \E c \in Calls, k \in PaymentKeys \ {inst[d].key}, mode \in SCAN_MODES,
        valid \in BOOLEAN : ProcessPayment(c, k, mode, valid)
  \/ \E c \in Calls :
       /\ calls[c].key \notin {0, inst[d].key}
       /\ OpenResume(c) \/ AfterOpen(c) \/ BindEvents(c) \/ ResultDelivered(c)
  \/ \E a \in DialogIds \ {d} :
       /\ inst[a].created
       /\ inst[a].key # inst[d].key
       /\ \/ \E r \in CloseResults : ControllerClose(a, r) \/ CloseDialog(a, r)
          \/ DestroyTimerFire(a)

\* C25: sessions for different payment keys are independent: a step taken
\* for a session of another key (a call that fails while opening, its
\* resolution, its teardown, the provider's cleanup on error) leaves the
\* listeners of a live session (final-status, close and the provider's), its
\* status, its timers and its future as they were.
C25_IndependentKeys ==
  [][\A d \in DialogIds :
       SessionLive(d) /\ StepOfOtherKey(d)
         => /\ inst'[d].dmFinal = inst[d].dmFinal
            /\ inst'[d].dmClose = inst[d].dmClose
            /\ inst'[d].provBound = inst[d].provBound
            /\ inst'[d].currentStatus = inst[d].currentStatus
            /\ inst'[d].timer = inst[d].timer
            /\ inst'[d].pollingTimer = inst[d].pollingTimer
            /\ inst'[d].live = inst[d].live
            /\ ctrl'[d] = ctrl[d]]_vars

\* ------------------------------------------------------------ user actions
\* the intervals of session s are the ones its two handle fields hold
IntervalsHeld(s) ==
  /\ \A t \in Live(s, "timer") : t.h = s.timer
  /\ \A t \in Live(s, "poll") : t.h = s.pollingTimer

\* C31: when handleRetryPayment completes, whatever status offered the retry,
\* the status is the initial state of the scan mode (ActiveInit for active,
\* PassiveInit for passive), the countdown is the configured value, the
\* query-suppression flag is false, and the intervals are those of the new
\* status: a countdown interval and a poller held by the instance in
\* ActiveInit, none in PassiveInit, and no interval that no field holds.
C31_RetryReinitialises ==
  [][\A d \in DialogIds :
       ClickRetry(d) =>
         LET s == inst'[d] IN
         /\ s.currentStatus = (IF s.payScanMode = ACTIVE THEN ACTIVE_INIT ELSE PASSIVE_INIT)
         /\ s.timeLeft = Countdown
         /\ ~s.isQuerying
         /\ IntervalsHeld(s)
         /\ IF s.payScanMode = ACTIVE
            THEN Running(s, "timer") /\ Running(s, "poll")
            ELSE Live(s, "timer") = {} /\ Live(s, "poll") = {}]_vars

\* an active session that a retry has put back into ActiveInit: the retry's
\* gateway call is still awaited and the timer and the poller run
C31_Witness ==
  \E d \in DialogIds :
    /\ Active(d) /\ "retry" \in inst[d].loading /\ net[d].retry > 0
    /\ inst[d].currentStatus = ACTIVE_INIT /\ isActiveMode(inst[d])
    /\ Running(inst[d], "timer") /\ Running(inst[d], "poll")

\* the handler of session d's event key finishes after its provider call failed
HandlerFails(d, key) ==
  CASE key = "cancel" -> CancelResponse(d, FALSE)
    [] key = "retry" -> RetryResponse(d, FALSE)
    [] key = "refresh" -> RefreshResponse(d, FALSE)
    [] key = "query" -> QueryResponse(d, QueryError)
    [] OTHER -> FALSE

\* C32: when the provider call triggered by a user action (cancel, retry,
\* refresh, query, abandon) fails, the status of the session is left as it
\* was and the loading flag of that action is false.
C32_FailureKeepsStatus ==
  [][\A d \in DialogIds :
       /\ \A key \in {"cancel", "retry", "refresh", "query"} :
            HandlerFails(d, key) =>
              /\ inst'[d].currentStatus = inst[d].currentStatus
              /\ key \notin inst'[d].loading
       /\ AbandonResponse(d) =>
            /\ inst'[d].currentStatus = inst[d].currentStatus
            /\ Close \notin inst'[d].loading]_vars

\* C33: every loading flag that a user action (cancel, retry, refresh,
\* non-silent query) sets on a live session is set back to false, whether the
\* provider call succeeds or fails.  The flag is cleared by the provider's
\* handler when its call completes (and by nothing else while the session is
\* live), so a flag that is set has a call of its handler in flight.
C33_LoadingCleared ==
  \A d \in DialogIds :
    \A key \in {"cancel", "retry", "refresh", "query"} :
      (Active(d) /\ key \in inst[d].loading) => net[d][key] > 0

\* ---------------------------------------------------- a controller reused
\* C34: when openPaymentDialog returns the controller that is already open
\* for a key and the provider runs showPaymentDialog on it again, the events
\* of the session are still handled once: one emitted event (init-dialog,
\* query-status, cancel-payment, refresh-qrcode, create-payment, ...) starts
\* at most one provider call.
C34_HandledOnce ==
  [][\A d \in DialogIds : \A kind \in DOMAIN NoRequests :
       net'[d][kind] <= net[d][kind] + 1]_vars

\* ------------------------------------------------------- statuses and exits
\* C35: a live session is never stuck: in every status that is not final,
\* whatever status value a query has delivered through updateStatus (Closed,
\* Refunding, Refunded, ...), the poller is running or at least one user
\* action is offered.
C35_NeverStuck ==
  \A d \in DialogIds :
    (Active(d) /\ inst[d].watching /\ ~isFinalStatus(inst[d].currentStatus))
      => \/ Running(inst[d], "poll")
         \/ getActionsForStatus(inst[d].currentStatus, inst[d].scanMode) # {}

\* ------------------------------------------------------ providers' lives
\* C36: the factory never hands out a destroyed provider: after any sequence
\* of init, destroy and reloadConfig of the manager, the instance that
\* PaymentFactory.create returns, and that the initialized manager holds for
\* its next operation, has not had destroy() called on it.
C36_NoDestroyedProvider ==
  /\ [](initialized => services.paymentService \notin services.destroyed)
  /\ [][(created' # created /\ created'.outcome = "returned")
          => created'.service \notin services'.destroyed]_vars

\* C37: the revertHandler in the result of a processPayment call is the one
\* of that call's own charge: a result for a session that created no gateway
\* order carries none, and no result carries the handler of another
\* session's createPayment.
C37_OwnRevertHandler ==
  LET r == provider.result IN
  r.session # 0 =>
    /\ provider.orders[r.session] = 0 => r.revertHandler = 0
    /\ r.revertHandler \in {0, r.session}

\* C38: when the future of a session has resolved with Abandoned and
\* processPayment goes on with that result, the compensating cancel that the
\* abandon-payment event started (status query, then refund or close) has
\* completed: none is in flight.
C38_CancelBeforeAbandoned ==
  [][\A c \in Calls :
       (ResultDelivered(c) /\ ctrl[calls[c].d].value = ABANDONED)
         => net[calls[c].d].abandon = 0]_vars

\* C39: polling is bounded by the countdown: the remaining time stays within
\* 0..Countdown, and once the countdown of a session has reached zero and
\* stopped the poller, no step starts a poller again unless it resets the
\* remaining time to the configured countdown.
C39_PollingBounded ==
  /\ [](\A d \in DialogIds : inst[d].timeLeft \in 0..Countdown)
  /\ [][\A d \in DialogIds :
          (/\ Active(d) /\ inst[d].timeLeft = 0
           /\ Live(inst[d], "timer") = {} /\ Live(inst[d], "poll") = {}
           /\ Live(inst'[d], "poll") # {})
            => inst'[d].timeLeft = Countdown]_vars

\* ------------------------------------------------------- emit terminates
\* C40: emit always terminates: whatever handlers are registered, throwing
\* handlers of 'error' included, an emit() returns to its caller, and (when
\* no handler emits on its own) it has called each handler of its copy at
\* most once and has emitted 'error' once for each of these calls that
\* failed.
C40_EmitTerminates ==
  emitter.result # "none" =>
    /\ emitter.result # "raised"
    /\ (\A i \in 1..Len(emitter.log) : emitter.log[i].listener.kind # "reemit")
         => /\ Len(CalledByEmit) <= Len(emitter.snapshot)
            /\ Len(emitter.republished)
                 <= Cardinality({i \in ThrowingCalls : emitter.log[i].depth = 1})

====
